---- MODULE Spec2Model ----
(***************************************************************************)
(* A model of the plugin comparison engine of wordpress-org-mcp            *)
(* (src/src/plugin-comparator.ts): the directory enumerator, the tree      *)
(* comparator and the per-file comparison.                                 *)
(*                                                                         *)
(* Strings are sequences of UTF-16 code units, file contents are           *)
(* sequences of bytes.  A relative path is the sequence of code units of   *)
(* its POSIX form: "D/a" is <<68, 47, 97>>.                                *)
(***************************************************************************)
EXTENDS Integers, Sequences, FiniteSets, TLC

\* ------------------------------------------------------------------ bounds

\* Nesting depth of the directories of a tree (0: the root only).
MaxDepth == 2
\* Length in bytes of the file contents of the content-rich initial states.
MaxLen == 2
\* Number of I/O calls (readFile, stat) of one comparison that fail.
MaxFaults == 3
\* Number of decimal digits of the largest count of a formatted summary,
\* less one: the counts go up to 10^MaxDigits.
MaxDigits == 3
\* Number of tool calls the server handles, overlapping in time or not.
MaxRequests == 1
\* Largest maxAttempts argument of retry.
MaxAttempts == 4

\* ------------------------------------------------- absent optional values

\* The value of an optional size field that is absent (getFileSize returns
\* undefined).  No byte count is negative.
Undefined == -1
\* The value of an optional diff field that is absent.
NoDiff == [present |-> FALSE]

\* ------------------------------------------------------------ file system

\* The bytes a file may hold: "\n", "x", "y" and 0x80, which is no valid
\* UTF-8 (a lone continuation byte): a file holding it is binary.
Bytes == {10, 120, 121, 128}

RECURSIVE SeqsUpTo(_, _)
SeqsUpTo(S, n) ==
    IF n = 0 THEN {<<>>}
    ELSE LET shorter == SeqsUpTo(S, n - 1)
         IN  shorter \cup {Append(s, b) : s \in shorter, b \in S}

\* Contents of the content-rich initial states.
Contents == SeqsUpTo(Bytes, MaxLen)
\* Content of the files of the structure-rich initial states: "x".
SmallContents == {<<120>>}

\* Names of the entries of a directory: the file "a" and the directory "D".
FileName == <<97>>
DirName == <<68>>

\* Two more file names, which a root may hold: "\u00E9" (e with acute accent,
\* one code unit) and "e\u0301" (e followed by the combining acute accent).
\* They are two names to the file system and to ===, and canonically
\* equivalent strings to localeCompare.
EAcute == <<233>>
EAcuteDecomposed == <<101, 769>>
EquivalentNames == {EAcute, EAcuteDecomposed}

\* path.join(dir, name) followed by path.relative(basePath, .), on POSIX:
\* the root's entries are named by their own name, deeper ones by dir/name.
Join(dir, name) == IF dir = <<>> THEN name ELSE dir \o <<47>> \o name

RECURSIVE DirPath(_)
DirPath(k) == IF k = 0 THEN <<>> ELSE Join(DirPath(k - 1), DirName)

DirPaths == {DirPath(k) : k \in 0..MaxDepth}
FilePaths == {Join(d, FileName) : d \in DirPaths} \cup EquivalentNames

\* The directory holding the file or directory with relative path p.
Parent(p) == IF Len(p) <= 1 THEN <<>> ELSE SubSeq(p, 1, Len(p) - 2)

AbsentFile == [present |-> FALSE, bytes |-> <<>>]
AbsentDir == [exists |-> FALSE, ok |-> FALSE]

\* A tree: its directories (exists: it is there, ok: readdir succeeds on it)
\* and its files.  An entry exists only in an existing directory.
WellFormedTree(t) ==
    /\ \A d \in DirPaths \ {<<>>} : t.dirs[d].exists => t.dirs[Parent(d)].exists
    /\ \A d \in DirPaths : ~t.dirs[d].exists => ~t.dirs[d].ok
    /\ \A f \in FilePaths : t.files[f].present => t.dirs[Parent(f)].exists

TreesOver(C) ==
    {t \in [dirs : [DirPaths -> [exists : BOOLEAN, ok : BOOLEAN]],
            files : [FilePaths -> {AbsentFile} \cup
                                  {[present |-> TRUE, bytes |-> c] : c \in C}]] :
        /\ WellFormedTree(t)
        /\ \A f \in EquivalentNames : ~t.files[f].present}

\* The tree under a path that does not exist.
AbsentTree ==
    [dirs |-> [d \in DirPaths |-> AbsentDir],
     files |-> [f \in FilePaths |-> AbsentFile]]

\* Trees of every shape, with small contents.
StructureTrees == TreesOver(SmallContents)

\* The trees among them whose directories below the root can all be read.
ReadableBelowRootTrees ==
    {t \in StructureTrees :
        \A d \in DirPaths \ {<<>>} : t.dirs[d].exists => t.dirs[d].ok}

\* Trees with a readable root holding at most the file "a", of any content.
ContentTrees ==
    {[dirs |-> [d \in DirPaths |->
                   IF d = <<>> THEN [exists |-> TRUE, ok |-> TRUE] ELSE AbsentDir],
      files |-> [f \in FilePaths |-> IF f = FileName THEN a ELSE AbsentFile]] :
        a \in {AbsentFile} \cup {[present |-> TRUE, bytes |-> c] : c \in Contents}}

\* Trees with a readable root holding any of the files "a", "\u00E9" and
\* "e\u0301", with small contents.
EquivalentNameTrees ==
    {[dirs |-> [d \in DirPaths |->
                   IF d = <<>> THEN [exists |-> TRUE, ok |-> TRUE] ELSE AbsentDir],
      files |-> [f \in FilePaths |->
                   IF f \in held THEN [present |-> TRUE, bytes |-> <<120>>]
                   ELSE AbsentFile]] :
        held \in SUBSET ({FileName} \cup EquivalentNames)}

\* ------------------------------------------------------------------ state

VARIABLES
    localTree,      \* the tree under localPluginPath
    remoteTree,     \* the tree under remotePluginPath
    pc,             \* where comparePlugins is
    localFiles,     \* const localFiles
    remoteFiles,    \* const remoteFiles
    allFiles,       \* const allFiles, in the Set's iteration order
    idx,            \* the position of the for loop in allFiles
    comparisons,    \* const comparisons
    identical,      \* let identical
    different,      \* let different
    localOnly,      \* let localOnly
    remoteOnly,     \* let remoteOnly
    result,         \* what comparePlugins settled with
    faults,         \* the I/O calls of the loop that failed: <<file, side, op>>
    formatInput,    \* the comparison handed to formatComparisonSummary
    output,         \* let output, and what formatComparisonSummary returns
    calls,          \* the tool calls of the server: arguments, position, outcome
    cacheDirectory, \* the ZIP file of each slug under cacheDir
    extractDirectory, \* the tree of each slug under extractDir
    retrying        \* the call of retry: arguments, loop variables, outcome

\* The variables of formatComparisonSummary.
formatterVars == <<formatInput, output>>

\* The variables of comparePlugins.
comparatorVars == <<localTree, remoteTree, pc, localFiles, remoteFiles, allFiles,
                    idx, comparisons, identical, different, localOnly, remoteOnly,
                    result, faults>>

\* The variables of the request handler of the server.
serverVars == <<calls, cacheDirectory, extractDirectory>>

vars == <<comparatorVars, formatterVars, serverVars, retrying>>

\* ------------------------------------------------------- string ordering

\* The default order of Array.prototype.sort: by UTF-16 code units.
CodeUnitWeight(c) == c

\* The order of String.prototype.localeCompare on the code units of a path:
\* punctuation before letters, letters alphabetically whatever their case
\* ("/" < "a" < "D"), where the code unit order has "/" < "D" < "a".
LocaleWeight(c) ==
    CASE c = 47 -> 1
      [] c = 97 -> 2
      [] c = 68 -> 3
      [] c = 233 -> 4
      [] OTHER -> c + 4

\* The canonical composition of a string: "e\u0301" becomes "\u00E9", and a
\* string without a combining mark is composed already.
RECURSIVE Nfc(_)
Nfc(s) ==
    IF \A i \in 1..Len(s) : s[i] # EAcuteDecomposed[2] THEN s
    ELSE IF SubSeq(s, 1, 2) = EAcuteDecomposed
    THEN EAcute \o Nfc(SubSeq(s, 3, Len(s)))
    ELSE IF s = <<>> THEN <<>>
    ELSE <<Head(s)>> \o Nfc(Tail(s))

\* -1, 0 or 1 as s sorts before, with or after t by code units.
RECURSIVE CodeUnitCompare(_, _)
CodeUnitCompare(s, t) ==
    IF s = <<>> /\ t = <<>> THEN 0
    ELSE IF s = <<>> THEN -1
    ELSE IF t = <<>> THEN 1
    ELSE IF CodeUnitWeight(Head(s)) < CodeUnitWeight(Head(t)) THEN -1
    ELSE IF CodeUnitWeight(Head(s)) > CodeUnitWeight(Head(t)) THEN 1
    ELSE CodeUnitCompare(Tail(s), Tail(t))

\* -1, 0 or 1 as s sorts before, with or after t by the weights of the
\* collation.
RECURSIVE CollationCompare(_, _)
CollationCompare(s, t) ==
    IF s = <<>> /\ t = <<>> THEN 0
    ELSE IF s = <<>> THEN -1
    ELSE IF t = <<>> THEN 1
    ELSE IF LocaleWeight(Head(s)) < LocaleWeight(Head(t)) THEN -1
    ELSE IF LocaleWeight(Head(s)) > LocaleWeight(Head(t)) THEN 1
    ELSE CollationCompare(Tail(s), Tail(t))

\* a.localeCompare(b): -1, 0 or 1.  Canonically equivalent strings compare
\* as equal: the comparison is of the composed forms.
LocaleCompare(s, t) == CollationCompare(Nfc(s), Nfc(t))

\* files.sort(): a stable insertion of each path after the paths that do not
\* sort after it.
RECURSIVE InsertPath(_, _)
InsertPath(p, sorted) ==
    IF sorted = <<>> THEN <<p>>
    ELSE IF CodeUnitCompare(p, Head(sorted)) < 0 THEN <<p>> \o sorted
    ELSE <<Head(sorted)>> \o InsertPath(p, Tail(sorted))

RECURSIVE SortPaths(_)
SortPaths(files) ==
    IF files = <<>> THEN <<>>
    ELSE InsertPath(files[Len(files)], SortPaths(SubSeq(files, 1, Len(files) - 1)))

\* InsertComparison with the comparator (a, b) => a.file > b.file, whose
\* boolean is never negative: no entry is moved before another.
InsertComparisonBooleanComparator(e, sorted) == Append(sorted, e)

\* comparisons.sort((a, b) => a.file.localeCompare(b.file)), stable.
RECURSIVE InsertComparison(_, _)
InsertComparison(e, sorted) ==
    IF sorted = <<>> THEN <<e>>
    ELSE IF LocaleCompare(e.file, Head(sorted).file) < 0 THEN <<e>> \o sorted
    ELSE <<Head(sorted)>> \o InsertComparison(e, Tail(sorted))

\* SortComparisons without the sort: the entries in the order of the loop.
SortComparisonsOmitted(cs) == cs

RECURSIVE SortComparisons(_)
SortComparisons(cs) ==
    IF cs = <<>> THEN <<>>
    ELSE InsertComparison(cs[Len(cs)], SortComparisons(SubSeq(cs, 1, Len(cs) - 1)))

\* ---------------------------------------------------- directory enumerator

\* The Dirent of the file of a name in a directory, if the file is there.
FileEntry(tree, dir, name) ==
    IF Join(dir, name) \in FilePaths /\ tree.files[Join(dir, name)].present
    THEN <<[name |-> name, isDirectory |-> FALSE]>> ELSE <<>>

\* fs.readdir(dir, {withFileTypes: true}): it throws when the directory is
\* missing or unreadable, else it lists the directory's entries.
Readdir(tree, dir) ==
    IF tree.dirs[dir].exists /\ tree.dirs[dir].ok
    THEN [err |-> FALSE,
          entries |->
              (IF Join(dir, DirName) \in DirPaths /\ tree.dirs[Join(dir, DirName)].exists
               THEN <<[name |-> DirName, isDirectory |-> TRUE]>> ELSE <<>>)
              \o FileEntry(tree, dir, FileName)
              \o FileEntry(tree, dir, EAcute)
              \o FileEntry(tree, dir, EAcuteDecomposed)]
    ELSE [err |-> TRUE, entries |-> <<>>]

\* walkDir(dir, basePath): the paths it pushes to files, and whether it
\* throws.  Its whole body is inside try/catch: a failed readdir is caught,
\* and the call pushes nothing and returns normally.
RECURSIVE WalkDir(_, _)
RECURSIVE WalkEntries(_, _, _)

\* WalkEntries pushing the path of every entry, a directory's too, before it
\* walks the directory.
RECURSIVE WalkEntriesPushingDirectories(_, _, _)
WalkEntriesPushingDirectories(tree, dir, entries) ==
    IF entries = <<>> THEN [err |-> FALSE, files |-> <<>>]
    ELSE LET entry == Head(entries)
             relativePath == Join(dir, entry.name)
             below == IF entry.isDirectory
                      THEN WalkDir(tree, relativePath)
                      ELSE [err |-> FALSE, files |-> <<>>]
         IN  IF below.err THEN below
             ELSE LET rest == WalkEntriesPushingDirectories(tree, dir, Tail(entries))
                  IN  [err |-> rest.err,
                       files |-> <<relativePath>> \o below.files \o rest.files]

\* The for loop of walkDir over the entries of a listing.
WalkEntries(tree, dir, entries) ==
    IF entries = <<>> THEN [err |-> FALSE, files |-> <<>>]
    ELSE LET entry == Head(entries)
             relativePath == Join(dir, entry.name)
             first == IF entry.isDirectory
                      THEN WalkDir(tree, relativePath)
                      ELSE [err |-> FALSE, files |-> <<relativePath>>]
         IN  IF first.err THEN first
             ELSE LET rest == WalkEntries(tree, dir, Tail(entries))
                  IN  [err |-> rest.err, files |-> first.files \o rest.files]

\* WalkDir with the try/catch around the walk of the root only: a failed
\* readdir below the root ends the whole walk.
WalkDirCaughtAtRoot(tree, dir) ==
    LET listing == Readdir(tree, dir)
        walked == IF listing.err THEN [err |-> TRUE, files |-> <<>>]
                  ELSE WalkEntries(tree, dir, listing.entries)
    IN  IF walked.err /\ dir = <<>> THEN [err |-> FALSE, files |-> <<>>] ELSE walked

WalkDir(tree, dir) ==
    LET listing == Readdir(tree, dir)
        walked == IF listing.err THEN [err |-> TRUE, files |-> <<>>]
                  ELSE WalkEntries(tree, dir, listing.entries)
    IN  IF walked.err THEN [err |-> FALSE, files |-> <<>>] ELSE walked

\* GetPluginFiles reading the root outside walkDir's try/catch.
GetPluginFilesRootUnguarded(tree) ==
    IF Readdir(tree, <<>>).err THEN [err |-> TRUE, files |-> <<>>]
    ELSE [err |-> FALSE, files |-> SortPaths(WalkDir(tree, <<>>).files)]

\* getPluginFiles(pluginPath): the walk from the root, sorted.
GetPluginFiles(tree) ==
    LET walked == WalkDir(tree, <<>>)
    IN  [err |-> walked.err, files |-> SortPaths(walked.files)]

\* --------------------------------------------------------------- file I/O

\* The decoding of fs.readFile(path, 'utf-8'): a byte below 0x80 is its own
\* code unit, a byte that is no valid UTF-8 becomes U+FFFD.  It never throws.
Decode(bytes) ==
    [i \in 1..Len(bytes) |-> IF bytes[i] < 128 THEN bytes[i] ELSE 65533]

\* A file is binary when its bytes are no valid UTF-8 text.
IsBinary(bytes) == \E i \in 1..Len(bytes) : bytes[i] >= 128

\* await fs.readFile(path, 'utf-8') on a file of the tree: it throws when
\* the read fails (ok is FALSE), else it returns the decoded content.
ReadFile(tree, file, ok) ==
    IF ok /\ tree.files[file].present
    THEN [err |-> FALSE, text |-> Decode(tree.files[file].bytes)]
    ELSE [err |-> TRUE, text |-> <<>>]

\* GetFileSize answering 0 for a file it cannot stat.
GetFileSizeZeroOnFailure(tree, file, ok) ==
    IF ok /\ tree.files[file].present
    THEN Len(tree.files[file].bytes)
    ELSE 0

\* getFileSize(filePath): stats.size, or undefined when fs.stat throws (ok is
\* FALSE).
GetFileSize(tree, file, ok) ==
    IF ok /\ tree.files[file].present
    THEN Len(tree.files[file].bytes)
    ELSE Undefined

\* ------------------------------------------------------------------- diff

\* The lines of a text as the diff library tokenizes it: each line keeps its
\* line break, the last line may have none.
RECURSIVE Lines(_)
Lines(text) ==
    IF text = <<>> THEN <<>>
    ELSE LET breaks == {i \in 1..Len(text) : text[i] = 10}
         IN  IF breaks = {} THEN <<text>>
             ELSE LET k == CHOOSE i \in breaks : \A j \in breaks : i <= j
                  IN  <<SubSeq(text, 1, k)>> \o Lines(SubSeq(text, k + 1, Len(text)))

\* The length of a longest common subsequence of two line sequences.
RECURSIVE LcsLen(_, _)
LcsLen(old, new) ==
    IF old = <<>> \/ new = <<>> THEN 0
    ELSE IF Head(old) = Head(new) THEN 1 + LcsLen(Tail(old), Tail(new))
    ELSE LET a == LcsLen(Tail(old), new)
             b == LcsLen(old, Tail(new))
         IN  IF a >= b THEN a ELSE b

\* A shortest edit script from old to new: " " a line of both, "-" a line
\* removed from old, "+" a line added by new; removals before additions.
RECURSIVE DiffLines(_, _)
DiffLines(old, new) ==
    IF old = <<>> THEN [i \in 1..Len(new) |-> [mark |-> "+", line |-> new[i]]]
    ELSE IF new = <<>> THEN [i \in 1..Len(old) |-> [mark |-> "-", line |-> old[i]]]
    ELSE IF Head(old) = Head(new)
         THEN <<[mark |-> " ", line |-> Head(old)]>> \o DiffLines(Tail(old), Tail(new))
    ELSE IF LcsLen(Tail(old), new) >= LcsLen(old, Tail(new))
         THEN <<[mark |-> "-", line |-> Head(old)]>> \o DiffLines(Tail(old), new)
    ELSE <<[mark |-> "+", line |-> Head(new)]>> \o DiffLines(old, Tail(new))

\* diff.createPatch(fileName, oldStr, newStr, oldHeader, newHeader): the
\* header naming the file and the two sides, and the marked lines.
CreatePatch(fileName, oldStr, newStr, oldHeader, newHeader) ==
    [present |-> TRUE,
     index |-> fileName,
     oldHeader |-> oldHeader,
     newHeader |-> newHeader,
     lines |-> DiffLines(Lines(oldStr), Lines(newStr))]

\* ---------------------------------------------------- per-file comparison

\* CompareFiles returning the identical entry without its two sizes.
CompareFilesSizesDropped(fileName, localRead, remoteRead, localSize, remoteSize) ==
    IF ~localRead.err /\ ~remoteRead.err
    THEN IF localRead.text = remoteRead.text
         THEN [file |-> fileName, status |-> "identical", diff |-> NoDiff,
               localSize |-> Undefined, remoteSize |-> Undefined]
         ELSE [file |-> fileName, status |-> "different",
               diff |-> CreatePatch(fileName, remoteRead.text, localRead.text,
                                    "WordPress.org", "Local"),
               localSize |-> localSize, remoteSize |-> remoteSize]
    ELSE [file |-> fileName,
          status |-> IF localSize = remoteSize THEN "identical" ELSE "different",
          diff |-> NoDiff,
          localSize |-> localSize, remoteSize |-> remoteSize]

\* CompareFiles with the two contents exchanged in the call of createPatch.
CompareFilesLocalToRemote(fileName, localRead, remoteRead, localSize, remoteSize) ==
    IF ~localRead.err /\ ~remoteRead.err
    THEN IF localRead.text = remoteRead.text
         THEN [file |-> fileName, status |-> "identical", diff |-> NoDiff,
               localSize |-> localSize, remoteSize |-> remoteSize]
         ELSE [file |-> fileName, status |-> "different",
               diff |-> CreatePatch(fileName, localRead.text, remoteRead.text,
                                    "WordPress.org", "Local"),
               localSize |-> localSize, remoteSize |-> remoteSize]
    ELSE [file |-> fileName,
          status |-> IF localSize = remoteSize THEN "identical" ELSE "different",
          diff |-> NoDiff,
          localSize |-> localSize, remoteSize |-> remoteSize]

\* CompareFiles whose catch block reports every pair as different.
CompareFilesFallbackDifferent(fileName, localRead, remoteRead, localSize, remoteSize) ==
    IF ~localRead.err /\ ~remoteRead.err
    THEN IF localRead.text = remoteRead.text
         THEN [file |-> fileName, status |-> "identical", diff |-> NoDiff,
               localSize |-> localSize, remoteSize |-> remoteSize]
         ELSE [file |-> fileName, status |-> "different",
               diff |-> CreatePatch(fileName, remoteRead.text, localRead.text,
                                    "WordPress.org", "Local"),
               localSize |-> localSize, remoteSize |-> remoteSize]
    ELSE [file |-> fileName,
          status |-> "different",
          diff |-> NoDiff,
          localSize |-> localSize, remoteSize |-> remoteSize]

\* CompareFiles building the patch before it compares the two contents, and
\* returning it with the identical entry too.
CompareFilesPatchAlways(fileName, localRead, remoteRead, localSize, remoteSize) ==
    IF ~localRead.err /\ ~remoteRead.err
    THEN [file |-> fileName,
          status |-> IF localRead.text = remoteRead.text THEN "identical" ELSE "different",
          diff |-> CreatePatch(fileName, remoteRead.text, localRead.text,
                               "WordPress.org", "Local"),
          localSize |-> localSize, remoteSize |-> remoteSize]
    ELSE [file |-> fileName,
          status |-> IF localSize = remoteSize THEN "identical" ELSE "different",
          diff |-> NoDiff,
          localSize |-> localSize, remoteSize |-> remoteSize]

\* compareFiles(localPath, remotePath, fileName), given what its I/O calls
\* gave: both reads (Promise.all rejects when either does), and the two size
\* lookups, made once in the try block or once in the catch block.
CompareFiles(fileName, localRead, remoteRead, localSize, remoteSize) ==
    IF ~localRead.err /\ ~remoteRead.err
    THEN IF localRead.text = remoteRead.text
         THEN [file |-> fileName, status |-> "identical", diff |-> NoDiff,
               localSize |-> localSize, remoteSize |-> remoteSize]
         ELSE [file |-> fileName, status |-> "different",
               diff |-> CreatePatch(fileName, remoteRead.text, localRead.text,
                                    "WordPress.org", "Local"),
               localSize |-> localSize, remoteSize |-> remoteSize]
    ELSE [file |-> fileName,
          status |-> IF localSize = remoteSize THEN "identical" ELSE "different",
          diff |-> NoDiff,
          localSize |-> localSize, remoteSize |-> remoteSize]

\* -------------------------------------------------------- tree comparator

\* files.includes(file)
Includes(files, file) == \E i \in 1..Len(files) : files[i] = file

\* AllFiles with an array in place of the Set: a path of both lists twice.
AllFilesConcat(local, remote) == local \o remote

\* new Set([...localFiles, ...remoteFiles]), as the sequence the for loop
\* iterates: insertion order, every path once.
AllFiles(local, remote) ==
    LET IsNew(f) == ~Includes(local, f)
    IN  local \o SelectSeq(remote, IsNew)

\* Branch with the two membership tests exchanged.
BranchExchanged(localExists, remoteExists) ==
    IF ~remoteExists THEN "remote_only"
    ELSE IF ~localExists THEN "local_only"
    ELSE "both"

\* The branch the loop body takes for a path of the union.
Branch(localExists, remoteExists) ==
    IF ~localExists THEN "remote_only"
    ELSE IF ~remoteExists THEN "local_only"
    ELSE "both"

\* RemoteOnlyEntry recording the size in the field of the other side.
RemoteOnlyEntryLocalField(file, size) ==
    [file |-> file, status |-> "remote_only", diff |-> NoDiff,
     localSize |-> size, remoteSize |-> Undefined]

\* The entry pushed for a path missing from localFiles.
RemoteOnlyEntry(file, size) ==
    [file |-> file, status |-> "remote_only", diff |-> NoDiff,
     localSize |-> Undefined, remoteSize |-> size]

\* The entry pushed for a path missing from remoteFiles.
LocalOnlyEntry(file, size) ==
    [file |-> file, status |-> "local_only", diff |-> NoDiff,
     localSize |-> size, remoteSize |-> Undefined]

\* The summary with the counts of the one-sided files exchanged.
SummaryOneSidedExchanged(nIdentical, nDifferent, nLocalOnly, nRemoteOnly, all) ==
    [identical |-> nIdentical,
     different |-> nDifferent,
     localOnly |-> nRemoteOnly,
     remoteOnly |-> nLocalOnly,
     total |-> Len(all)]

\* The summary of the returned value; total is allFiles.size.
Summary(nIdentical, nDifferent, nLocalOnly, nRemoteOnly, all) ==
    [identical |-> nIdentical,
     different |-> nDifferent,
     localOnly |-> nLocalOnly,
     remoteOnly |-> nRemoteOnly,
     total |-> Len(all)]

\* The value comparePlugins returns.
PluginComparison(cs, summary) ==
    [state |-> "fulfilled",
     localPath |-> "localPluginPath",
     remotePath |-> "remotePluginPath",
     files |-> SortComparisons(cs),
     summary |-> summary]

Pending == [state |-> "pending"]
Rejected == [state |-> "rejected"]

\* The failed calls among the given ones; ok maps each call to its outcome.
Failed(file, ok) ==
    {<<file, c[1], c[2]>> : c \in {c \in DOMAIN ok : ~ok[c]}}


\* ---------------------------------------------------------- summary report

\* The literals of formatComparisonSummary, as code units.
\* "Plugin Comparison Summary\n"
TitleLine ==
    <<80, 108, 117, 103, 105, 110, 32, 67, 111, 109, 112, 97, 114, 105,
      115, 111, 110, 32, 83, 117, 109, 109, 97, 114, 121, 10>>
\* "=========================\n\n"
RuleLine ==
    <<61, 61, 61, 61, 61, 61, 61, 61, 61, 61, 61, 61, 61, 61, 61, 61, 61,
      61, 61, 61, 61, 61, 61, 61, 61, 10, 10>>
\* "Local:  "
LocalLabel ==
    <<76, 111, 99, 97, 108, 58, 32, 32>>
\* "Remote: "
RemoteLabel ==
    <<82, 101, 109, 111, 116, 101, 58, 32>>
\* "Files Analysis:\n"
AnalysisLine ==
    <<70, 105, 108, 101, 115, 32, 65, 110, 97, 108, 121, 115, 105, 115, 58,
      10>>
\* "- Identical:   "
IdenticalLabel ==
    <<45, 32, 73, 100, 101, 110, 116, 105, 99, 97, 108, 58, 32, 32, 32>>
\* "- Different:   "
DifferentLabel ==
    <<45, 32, 68, 105, 102, 102, 101, 114, 101, 110, 116, 58, 32, 32, 32>>
\* "- Local only:  "
LocalOnlyLabel ==
    <<45, 32, 76, 111, 99, 97, 108, 32, 111, 110, 108, 121, 58, 32, 32>>
\* "- Remote only: "
RemoteOnlyLabel ==
    <<45, 32, 82, 101, 109, 111, 116, 101, 32, 111, 110, 108, 121, 58, 32>>
\* "- Total:       "
TotalLabel ==
    <<45, 32, 84, 111, 116, 97, 108, 58, 32, 32, 32, 32, 32, 32, 32>>
\* " files\n"
FilesSuffix ==
    <<32, 102, 105, 108, 101, 115, 10>>
\* "Different Files:\n"
DifferentHeader ==
    <<68, 105, 102, 102, 101, 114, 101, 110, 116, 32, 70, 105, 108, 101,
      115, 58, 10>>
\* "Local Only Files:\n"
LocalOnlyHeader ==
    <<76, 111, 99, 97, 108, 32, 79, 110, 108, 121, 32, 70, 105, 108, 101,
      115, 58, 10>>
\* "Remote Only Files:\n"
RemoteOnlyHeader ==
    <<82, 101, 109, 111, 116, 101, 32, 79, 110, 108, 121, 32, 70, 105, 108,
      101, 115, 58, 10>>
\* "- "
ItemPrefix ==
    <<45, 32>>
\* "\n"
LineBreak ==
    <<10>>

\* n.toString(), for a count: the decimal digits of n.
RECURSIVE NumberToString(_)
NumberToString(n) ==
    IF n < 10 THEN <<48 + n>>
    ELSE Append(NumberToString(n \div 10), 48 + (n % 10))

\* s.padStart(targetLength): s with spaces before it up to targetLength code
\* units; a longer s is returned as it is.
PadStart(s, targetLength) ==
    IF Len(s) >= targetLength THEN s
    ELSE [i \in 1..(targetLength - Len(s)) |-> 32] \o s

\* `${label}${count.toString().padStart(3)} files\n`
CountLine(label, count) == label \o PadStart(NumberToString(count), 3) \o FilesSuffix

\* The lines `- ${f.file}\n` of the entries of a status, in the order of files.
RECURSIVE ListedFiles(_, _)
ListedFiles(files, status) ==
    IF files = <<>> THEN <<>>
    ELSE (IF Head(files).status = status
          THEN ItemPrefix \o Head(files).file \o LineBreak ELSE <<>>)
         \o ListedFiles(Tail(files), status)

\* Section printing its header whatever the count.
SectionUnconditional(header, count, files, status) ==
    header \o ListedFiles(files, status) \o LineBreak

\* if (count > 0) { header; a line for each entry of the status; "\n" }
Section(header, count, files, status) ==
    IF count > 0
    THEN header \o ListedFiles(files, status) \o LineBreak
    ELSE <<>>

\* formatComparisonSummary(comparison)
FormatComparisonSummary(c) ==
    TitleLine \o RuleLine
    \o LocalLabel \o c.localPath \o LineBreak
    \o RemoteLabel \o c.remotePath \o LineBreak \o LineBreak
    \o AnalysisLine
    \o CountLine(IdenticalLabel, c.summary.identical)
    \o CountLine(DifferentLabel, c.summary.different)
    \o CountLine(LocalOnlyLabel, c.summary.localOnly)
    \o CountLine(RemoteOnlyLabel, c.summary.remoteOnly)
    \o CountLine(TotalLabel, c.summary.total) \o LineBreak
    \o Section(DifferentHeader, c.summary.different, c.files, "different")
    \o Section(LocalOnlyHeader, c.summary.localOnly, c.files, "local_only")
    \o Section(RemoteOnlyHeader, c.summary.remoteOnly, c.files, "remote_only")

\* ------------------------------------------------------- server: values

\* The calls the server handles.
Requests == 1..MaxRequests

\* Two calls, which may overlap in time.
OverlappingRequests == {1, 2}

\* The plugin slugs of the calls.
Slugs == {"p", "q"}

\* The eight tools the server registers, and a name that is none of them.
ToolNames == {"search_plugins", "get_plugin_info", "download_plugin",
              "extract_plugin", "list_plugin_files", "read_plugin_file",
              "compare_plugins", "get_file_diff"}
UnknownTool == "unknown_tool"

\* The tools that compare a local plugin with a WordPress.org plugin.
ComparisonTools == {"compare_plugins", "get_file_diff"}

\* What a call has produced: nothing yet, a response, a thrown McpError or
\* any other thrown value.  A message is the pair of the fixed text of a
\* template string and the value it interpolates.
NoOutcome == [kind |-> "none"]
Content(text) == [kind |-> "content", text |-> text]
McpError(code, message) == [kind |-> "McpError", code |-> code, message |-> message]
PlainError(message) == [kind |-> "Error", message |-> message]

\* A call that has not arrived.
IdleCall ==
    [name |-> UnknownTool, slug |-> "p", file |-> <<>>, format |-> "summary",
     extension |-> <<>>, zip_path |-> FALSE,
     pc |-> "idle", zipPath |-> FALSE, entry |-> 1,
     localFiles |-> <<>>, remoteFiles |-> <<>>, allFiles |-> <<>>,
     comparisons |-> <<>>, log |-> <<>>, fetches |-> 0,
     raised |-> NoOutcome, outcome |-> NoOutcome]

\* No tool call has arrived, and nothing is cached or extracted.
ServerIdle ==
    /\ calls = [r \in Requests |-> IdleCall]
    /\ cacheDirectory = [s \in Slugs |-> "absent"]
    /\ extractDirectory = [s \in Slugs |-> AbsentTree]

\* ---------------------------------------------------------- retry: values

\* The value of let lastError before a catch assigned it, and of a result
\* that is not there.
NoValue == [attempt |-> 0]

\* No call of retry is under way.
RetryIdle ==
    retrying = [pc |-> "idle", maxAttempts |-> 0, baseDelay |-> 0, attempt |-> 0,
                operations |-> 0, waits |-> <<>>, lastError |-> NoValue,
                state |-> "pending", value |-> NoValue]

\* ----------------------------------------------------------------- actions

InitVars ==
    /\ pc = "enumerateLocal"
    /\ localFiles = <<>>
    /\ remoteFiles = <<>>
    /\ allFiles = <<>>
    /\ idx = 1
    /\ comparisons = <<>>
    /\ identical = 0
    /\ different = 0
    /\ localOnly = 0
    /\ remoteOnly = 0
    /\ result = Pending
    /\ faults = {}

\* No call of formatComparisonSummary is under way.
FormatterIdle ==
    /\ formatInput = Pending
    /\ output = <<>>

\* comparePlugins is called on two roots: a local tree of any shape and an
\* extracted tree, whose subdirectories can be read, both holding small files;
\* two roots holding at most one file, of any content; or two roots holding
\* files with canonically equivalent names.
Init ==
    /\ \/ localTree \in StructureTrees /\ remoteTree \in ReadableBelowRootTrees
       \/ localTree \in ContentTrees /\ remoteTree \in ContentTrees
       \/ localTree \in EquivalentNameTrees /\ remoteTree \in EquivalentNameTrees
    /\ InitVars
    /\ FormatterIdle
    /\ ServerIdle
    /\ RetryIdle

\* const localFiles = await this.getPluginFiles(localPluginPath)
EnumerateLocal ==
    /\ pc = "enumerateLocal"
    /\ LET listed == GetPluginFiles(localTree)
       IN  IF listed.err
           THEN /\ pc' = "done"
                /\ result' = Rejected
                /\ UNCHANGED localFiles
           ELSE /\ pc' = "enumerateRemote"
                /\ localFiles' = listed.files
                /\ UNCHANGED result
    /\ UNCHANGED <<localTree, remoteTree, remoteFiles, allFiles, idx, comparisons,
                   identical, different, localOnly, remoteOnly, faults>>
    /\ UNCHANGED <<formatterVars, serverVars, retrying>>

\* const remoteFiles = await this.getPluginFiles(remotePluginPath), and the
\* statements up to the loop.
EnumerateRemote ==
    /\ pc = "enumerateRemote"
    /\ LET listed == GetPluginFiles(remoteTree)
       IN  IF listed.err
           THEN /\ pc' = "done"
                /\ result' = Rejected
                /\ UNCHANGED <<remoteFiles, allFiles>>
           ELSE /\ pc' = "loop"
                /\ remoteFiles' = listed.files
                /\ allFiles' = AllFiles(localFiles, listed.files)
                /\ UNCHANGED result
    /\ idx' = 1
    /\ comparisons' = <<>>
    /\ identical' = 0
    /\ different' = 0
    /\ localOnly' = 0
    /\ remoteOnly' = 0
    /\ UNCHANGED <<localTree, remoteTree, localFiles, faults>>
    /\ UNCHANGED <<formatterVars, serverVars, retrying>>

\* The branch of the path the loop is at.
BranchAt(i) ==
    Branch(Includes(localFiles, allFiles[i]), Includes(remoteFiles, allFiles[i]))

\* One iteration of the loop on a path missing from localFiles.
RemoteOnlyStep ==
    /\ pc = "loop"
    /\ idx <= Len(allFiles)
    /\ BranchAt(idx) = "remote_only"
    /\ \E statOk \in BOOLEAN :
          LET file == allFiles[idx]
              failed == Failed(file, (<<"remote", "stat">> :> statOk))
          IN  /\ Cardinality(faults \cup failed) <= MaxFaults
              /\ faults' = faults \cup failed
              /\ comparisons' = Append(comparisons,
                     RemoteOnlyEntry(file, GetFileSize(remoteTree, file, statOk)))
    /\ remoteOnly' = remoteOnly + 1
    /\ idx' = idx + 1
    /\ UNCHANGED <<localTree, remoteTree, pc, localFiles, remoteFiles, allFiles,
                   identical, different, localOnly, result>>
    /\ UNCHANGED <<formatterVars, serverVars, retrying>>

\* One iteration of the loop on a path of localFiles missing from remoteFiles.
LocalOnlyStep ==
    /\ pc = "loop"
    /\ idx <= Len(allFiles)
    /\ BranchAt(idx) = "local_only"
    /\ \E statOk \in BOOLEAN :
          LET file == allFiles[idx]
              failed == Failed(file, (<<"local", "stat">> :> statOk))
          IN  /\ Cardinality(faults \cup failed) <= MaxFaults
              /\ faults' = faults \cup failed
              /\ comparisons' = Append(comparisons,
                     LocalOnlyEntry(file, GetFileSize(localTree, file, statOk)))
    /\ localOnly' = localOnly + 1
    /\ idx' = idx + 1
    /\ UNCHANGED <<localTree, remoteTree, pc, localFiles, remoteFiles, allFiles,
                   identical, different, remoteOnly, result>>
    /\ UNCHANGED <<formatterVars, serverVars, retrying>>

\* One iteration of the loop on a path of both lists: compareFiles, with the
\* outcome of each of its four I/O calls.
CompareStep ==
    /\ pc = "loop"
    /\ idx <= Len(allFiles)
    /\ BranchAt(idx) = "both"
    /\ \E readLocalOk \in BOOLEAN, readRemoteOk \in BOOLEAN,
          statLocalOk \in BOOLEAN, statRemoteOk \in BOOLEAN :
          LET file == allFiles[idx]
              failed == Failed(file, (<<"local", "read">> :> readLocalOk)
                                     @@ (<<"remote", "read">> :> readRemoteOk)
                                     @@ (<<"local", "stat">> :> statLocalOk)
                                     @@ (<<"remote", "stat">> :> statRemoteOk))
              comparison == CompareFiles(file,
                                ReadFile(localTree, file, readLocalOk),
                                ReadFile(remoteTree, file, readRemoteOk),
                                GetFileSize(localTree, file, statLocalOk),
                                GetFileSize(remoteTree, file, statRemoteOk))
          IN  /\ Cardinality(faults \cup failed) <= MaxFaults
              /\ faults' = faults \cup failed
              /\ comparisons' = Append(comparisons, comparison)
              /\ IF comparison.status = "identical"
                 THEN identical' = identical + 1 /\ UNCHANGED different
                 ELSE different' = different + 1 /\ UNCHANGED identical
    /\ idx' = idx + 1
    /\ UNCHANGED <<localTree, remoteTree, pc, localFiles, remoteFiles, allFiles,
                   localOnly, remoteOnly, result>>
    /\ UNCHANGED <<formatterVars, serverVars, retrying>>

\* The return statement, after the last iteration.
Return ==
    /\ pc = "loop"
    /\ idx > Len(allFiles)
    /\ result' = PluginComparison(comparisons,
                     Summary(identical, different, localOnly, remoteOnly, allFiles))
    /\ pc' = "done"
    /\ UNCHANGED <<localTree, remoteTree, localFiles, remoteFiles, allFiles, idx,
                   comparisons, identical, different, localOnly, remoteOnly, faults>>
    /\ UNCHANGED <<formatterVars, serverVars, retrying>>

Next ==
    \/ EnumerateLocal
    \/ EnumerateRemote
    \/ RemoteOnlyStep
    \/ LocalOnlyStep
    \/ CompareStep
    \/ Return

Spec == Init /\ [][Next]_vars

\* ------------------------------------------------ enumerating two trees

\* getPluginFiles is called on two trees of any shape.
EnumerateInit ==
    /\ localTree \in StructureTrees
    /\ remoteTree \in StructureTrees
    /\ InitVars
    /\ FormatterIdle
    /\ ServerIdle
    /\ RetryIdle

EnumerateNext ==
    \/ EnumerateLocal
    \/ EnumerateRemote

SpecEnumerate == EnumerateInit /\ [][EnumerateNext]_vars

\* --------------------------------------- comparing trees that can be read

\* comparePlugins is called on two trees whose subdirectories can be read, or
\* on two roots holding files with canonically equivalent names.
OrderInit ==
    /\ \/ localTree \in ReadableBelowRootTrees /\ remoteTree \in ReadableBelowRootTrees
       \/ localTree \in EquivalentNameTrees /\ remoteTree \in EquivalentNameTrees
    /\ InitVars
    /\ FormatterIdle
    /\ ServerIdle
    /\ RetryIdle

SpecOrder == OrderInit /\ [][Next]_vars

\* ------------------------------------------- formatting a summary report

\* No call of comparePlugins is under way.
ComparatorIdle ==
    /\ localTree = AbsentTree
    /\ remoteTree = AbsentTree
    /\ localFiles = <<>>
    /\ remoteFiles = <<>>
    /\ allFiles = <<>>
    /\ idx = 1
    /\ comparisons = <<>>
    /\ identical = 0
    /\ different = 0
    /\ localOnly = 0
    /\ remoteOnly = 0
    /\ result = Pending
    /\ faults = {}

\* The paths of the entries of a formatted comparison.
FormatPaths == {Join(d, FileName) : d \in DirPaths}

\* The two roots of a formatted comparison: "/l" and "/r".
FormatLocalPath == <<47, 108>>
FormatRemotePath == <<47, 114>>

RECURSIVE Pow10(_)
Pow10(k) == IF k = 0 THEN 1 ELSE 10 * Pow10(k - 1)

\* The numbers of identical entries of a comparison that are not spelled out
\* in its files (formatComparisonSummary prints no line for an identical
\* entry): none, or as many as make the counts have one digit more.
ElidedIdentical == {0} \cup UNION {{Pow10(k) - 1, Pow10(k)} : k \in 1..MaxDigits}

RECURSIVE SeqOfSet(_)
SeqOfSet(S) ==
    IF S = {} THEN <<>>
    ELSE LET x == CHOOSE y \in S : TRUE
         IN  <<x>> \o SeqOfSet(S \ {x})

\* The files of a comparison as comparePlugins returns them: an entry for
\* each path of a set, of any status, sorted.
FormatFiles ==
    UNION {{SortComparisons([i \in 1..Cardinality(P) |->
                [file |-> SeqOfSet(P)[i], status |-> st[SeqOfSet(P)[i]],
                 diff |-> NoDiff, localSize |-> Undefined, remoteSize |-> Undefined]]) :
            st \in [P -> {"identical", "different", "local_only", "remote_only"}]} :
           P \in SUBSET FormatPaths}

\* The number of entries of a status.
CountOf(files, status) ==
    Cardinality({i \in 1..Len(files) : files[i].status = status})

\* The comparisons handed to formatComparisonSummary: the counts are those
\* of the files, and of the identical entries that are not spelled out.
FormatInputs ==
    {[state |-> "fulfilled",
      localPath |-> FormatLocalPath,
      remotePath |-> FormatRemotePath,
      files |-> files,
      summary |-> [identical |-> CountOf(files, "identical") + elided,
                   different |-> CountOf(files, "different"),
                   localOnly |-> CountOf(files, "local_only"),
                   remoteOnly |-> CountOf(files, "remote_only"),
                   total |-> Len(files) + elided]] :
        files \in FormatFiles, elided \in ElidedIdentical}

FormatInit ==
    /\ ComparatorIdle
    /\ pc = "format"
    /\ formatInput \in FormatInputs
    /\ output = <<>>
    /\ ServerIdle
    /\ RetryIdle

\* formatComparisonSummary(comparison)
Format ==
    /\ pc = "format"
    /\ output' = FormatComparisonSummary(formatInput)
    /\ pc' = "formatted"
    /\ UNCHANGED <<localTree, remoteTree, localFiles, remoteFiles, allFiles, idx,
                   comparisons, identical, different, localOnly, remoteOnly,
                   result, faults, formatInput>>
    /\ UNCHANGED <<serverVars, retrying>>

FormatNext == Format

SpecFormat == FormatInit /\ [][FormatNext]_vars

\* ---------------------------------------------------- server: tool calls

\* The entries of the ZIP file WordPress.org serves for a plugin, in the
\* order of the archive: the file "a" holding "x" and the empty file "D/a".
ArchiveEntries ==
    <<[fileName |-> FileName, bytes |-> <<120>>],
      [fileName |-> Join(DirName, FileName), bytes |-> <<>>]>>

\* The directories a path lies under.
DirsAbove(p) ==
    {d \in DirPaths :
        d = <<>> \/ (Len(d) < Len(p) /\ SubSeq(p, 1, Len(d) + 1) = d \o <<47>>)}

\* fs.rm(extractPath, {recursive, force}) and fs.mkdir(extractPath): an
\* empty directory.
EmptyDirectory ==
    [dirs |-> [d \in DirPaths |->
                  IF d = <<>> THEN [exists |-> TRUE, ok |-> TRUE] ELSE AbsentDir],
     files |-> [f \in FilePaths |-> AbsentFile]]

\* A file entry of the archive: fs.mkdir(dir, {recursive}) and the pipeline
\* into createWriteStream(filePath).
WriteEntry(tree, entry) ==
    [dirs |-> [d \in DirPaths |->
                  IF d \in DirsAbove(entry.fileName)
                  THEN [exists |-> TRUE, ok |-> TRUE] ELSE tree.dirs[d]],
     files |-> [f \in FilePaths |->
                  IF f = entry.fileName
                  THEN [present |-> TRUE, bytes |-> entry.bytes] ELSE tree.files[f]]]

RECURSIVE WriteEntries(_, _)
WriteEntries(tree, entries) ==
    IF entries = <<>> THEN tree
    ELSE WriteEntries(WriteEntry(tree, Head(entries)), Tail(entries))

\* The extraction directory of a slug after extractPlugin has resolved, no
\* other call having touched it.
ExtractedTree == WriteEntries(EmptyDirectory, ArchiveEntries)

\* The extraction directory an earlier version of the plugin left: the files
\* of the archive and one file more.
StaleTree == WriteEntry(ExtractedTree, [fileName |-> EAcute, bytes |-> <<120>>])

\* The trees under local_path: a copy of the plugin, or the file "a" alone
\* holding "y".
LocalPluginTrees ==
    {ExtractedTree,
     WriteEntry(EmptyDirectory, [fileName |-> FileName, bytes |-> <<121>>])}

\* The file_path arguments: "a", "D/a" and a path no plugin holds.
CallFiles == {FileName, Join(DirName, FileName), EAcute}

\* The extension arguments: none and ".php".
PhpExtension == <<46, 112, 104, 112>>
CallExtensions == {<<>>, PhpExtension}

NoArguments ==
    [slug |-> "p", file |-> <<>>, format |-> "summary", extension |-> <<>>,
     zip_path |-> FALSE]

\* The arguments of a call of a tool.
Arguments(name) ==
    IF name \in {"get_plugin_info", "download_plugin"}
    THEN {[NoArguments EXCEPT !.slug = s] : s \in Slugs}
    ELSE IF name = "extract_plugin"
    THEN {[NoArguments EXCEPT !.slug = s, !.zip_path = z] : s \in Slugs, z \in BOOLEAN}
    ELSE IF name = "list_plugin_files"
    THEN {[NoArguments EXCEPT !.slug = s, !.extension = e] :
            s \in Slugs, e \in CallExtensions}
    ELSE IF name \in {"read_plugin_file", "get_file_diff"}
    THEN {[NoArguments EXCEPT !.slug = s, !.file = f] : s \in Slugs, f \in CallFiles}
    ELSE IF name = "compare_plugins"
    THEN {[NoArguments EXCEPT !.slug = s, !.format = f] :
            s \in Slugs, f \in {"summary", "detailed"}}
    ELSE {NoArguments}

\* The catch block of the request handler, with the value thrown: an McpError
\* thrown again, anything else wrapped.
CatchToolErrorRethrowing(error) == error

CatchToolError(error) ==
    IF error.kind = "McpError" THEN error
    ELSE McpError("InternalError", <<"Tool execution failed", error.message>>)

\* A handler throws.
Throw(c, error) ==
    [c EXCEPT !.pc = "done", !.raised = error, !.outcome = CatchToolError(error)]

\* A handler returns { content: [{ type: 'text', text }] }.
Respond(c, text) == [c EXCEPT !.pc = "done", !.outcome = Content(text)]

\* The first await of the handler of a tool.
FirstStep(name, args) ==
    CASE name = "search_plugins" -> "search"
      [] name = "get_plugin_info" -> "info"
      [] name = "list_plugin_files" -> "list"
      [] name = "read_plugin_file" -> "read"
      [] name = "extract_plugin" /\ args.zip_path -> "extract"
      [] OTHER -> "download"

\* The request handler up to the first await of the handler of the tool: the
\* switch on the name, and the destructuring of the arguments.  The calls
\* arrive in the order of their numbers.
CallToolAmong(r, names) ==
    /\ pc = "serve"
    /\ r \in DOMAIN calls
    /\ calls[r].pc = "idle"
    /\ \A s \in DOMAIN calls : s < r => calls[s].pc # "idle"
    /\ \E name \in names : \E args \in Arguments(name) :
          LET c == [calls[r] EXCEPT !.name = name, !.slug = args.slug,
                                    !.file = args.file, !.format = args.format,
                                    !.extension = args.extension,
                                    !.zip_path = args.zip_path,
                                    !.zipPath = args.zip_path]
              first == FirstStep(name, args)
          IN  calls' = [calls EXCEPT ![r] =
                 IF name \notin ToolNames
                 THEN Throw(c, McpError("MethodNotFound", <<"Unknown tool", name>>))
                 ELSE [c EXCEPT !.pc = first,
                                !.log = IF first \in {"download", "extract"}
                                        THEN <<first>> ELSE <<>>]]
    /\ UNCHANGED <<cacheDirectory, extractDirectory>>
    /\ UNCHANGED <<comparatorVars, formatterVars, retrying>>

\* handleSearchPlugins: the plugins of the response, none when the request
\* fails.
Search(r) ==
    /\ r \in DOMAIN calls
    /\ calls[r].pc = "search"
    /\ \E ok \in BOOLEAN :
          calls' = [calls EXCEPT ![r] =
              Respond(@, [form |-> "plugins",
                          value |-> IF ok THEN <<calls[r].slug>> ELSE <<>>])]
    /\ UNCHANGED <<cacheDirectory, extractDirectory>>
    /\ UNCHANGED <<comparatorVars, formatterVars, retrying>>

\* handleGetPluginInfo: the info of the response, null when the request fails.
Info(r) ==
    /\ r \in DOMAIN calls
    /\ calls[r].pc = "info"
    /\ \E ok \in BOOLEAN :
          calls' = [calls EXCEPT ![r] =
              IF ok THEN Respond(@, [form |-> "info", value |-> <<calls[r].slug>>])
              ELSE Throw(@, McpError("InvalidRequest",
                                     <<"Plugin not found", calls[r].slug>>))]
    /\ UNCHANGED <<cacheDirectory, extractDirectory>>
    /\ UNCHANGED <<comparatorVars, formatterVars, retrying>>

\* AfterDownload starting the extraction whatever downloadPlugin returned.
AfterDownloadUnchecked(c, zipPath) ==
    [c EXCEPT !.zipPath = zipPath, !.pc = "extract",
              !.log = @ \o <<IF zipPath THEN "path" ELSE "no path", "extract">>]

\* The statements of a handler after await this.api.downloadPlugin(slug),
\* with what it returned: a path (TRUE) or null (FALSE).
AfterDownload(c, zipPath) ==
    LET d == [c EXCEPT !.zipPath = zipPath,
                       !.log = Append(@, IF zipPath THEN "path" ELSE "no path")]
    IN  IF ~zipPath
        THEN Throw(d, McpError("InvalidRequest",
                 <<IF c.name = "extract_plugin" THEN "Plugin ZIP not found"
                   ELSE "Failed to download plugin", c.slug>>))
        ELSE IF c.name = "download_plugin"
        THEN Respond(d, [form |-> "downloaded", value |-> <<c.slug>>])
        ELSE [d EXCEPT !.pc = "extract", !.log = Append(@, "extract")]

\* downloadPlugin calling fetch whether or not the file is cached.
DownloadAccessAlwaysFetching(r) ==
    /\ r \in DOMAIN calls
    /\ calls[r].pc = "download"
    /\ calls' = [calls EXCEPT ![r].pc = "fetch", ![r].fetches = @ + 1]
    /\ UNCHANGED <<cacheDirectory, extractDirectory>>
    /\ UNCHANGED <<comparatorVars, formatterVars, retrying>>

\* downloadPlugin up to fs.access(filePath): the cached path when the file
\* is there, whatever it holds; else fetch(downloadUrl) is called.
DownloadAccess(r) ==
    /\ r \in DOMAIN calls
    /\ calls[r].pc = "download"
    /\ calls' = [calls EXCEPT ![r] =
           IF cacheDirectory[calls[r].slug] # "absent"
           THEN AfterDownload(@, TRUE)
           ELSE [@ EXCEPT !.pc = "fetch", !.fetches = @ + 1]]
    /\ UNCHANGED <<cacheDirectory, extractDirectory>>
    /\ UNCHANGED <<comparatorVars, formatterVars, retrying>>

\* downloadPlugin up to the pipeline: fetch answers; null when the response
\* is not ok or fetch throws, else createWriteStream creates the file.
DownloadFetch(r) ==
    /\ r \in DOMAIN calls
    /\ calls[r].pc = "fetch"
    /\ \E ok \in BOOLEAN :
          IF ok
          THEN /\ calls' = [calls EXCEPT ![r].pc = "write"]
               /\ cacheDirectory' = [cacheDirectory EXCEPT ![calls[r].slug] = "partial"]
          ELSE /\ calls' = [calls EXCEPT ![r] = AfterDownload(@, FALSE)]
               /\ UNCHANGED cacheDirectory
    /\ UNCHANGED extractDirectory
    /\ UNCHANGED <<comparatorVars, formatterVars, retrying>>

\* Another call has the cache file of the slug of a call open for writing.
OtherWriter(r) ==
    \E s \in DOMAIN calls \ {r} :
        calls[s].pc = "write" /\ calls[s].slug = calls[r].slug

\* The pipeline settles: the file is whole when no other call is writing it,
\* and whole or not when another call, which truncated it, still is; a
\* failed pipeline is caught and leaves the file as it is.
DownloadWrite(r) ==
    /\ r \in DOMAIN calls
    /\ calls[r].pc = "write"
    /\ \E ok \in BOOLEAN :
          /\ calls' = [calls EXCEPT ![r] = AfterDownload(@, ok)]
          /\ IF ok
             THEN \E whole \in IF OtherWriter(r) THEN BOOLEAN ELSE {TRUE} :
                     cacheDirectory' = [cacheDirectory EXCEPT ![calls[r].slug] =
                        IF whole THEN "complete" ELSE "partial"]
             ELSE UNCHANGED cacheDirectory
    /\ UNCHANGED extractDirectory
    /\ UNCHANGED <<comparatorVars, formatterVars, retrying>>

\* extractPlugin up to yauzl.open: fs.rm removes the directory of the slug
\* with the files it holds, or throws on a directory that is there and the
\* catch block goes on; fs.mkdir then makes the directory unless it is there.
ExtractClean(r) ==
    /\ r \in DOMAIN calls
    /\ calls[r].pc = "extract"
    /\ calls' = [calls EXCEPT ![r].pc = "open"]
    /\ \E removed \in IF extractDirectory[calls[r].slug] = AbsentTree
                       THEN {TRUE} ELSE BOOLEAN :
          extractDirectory' = [extractDirectory EXCEPT ![calls[r].slug] =
                                  IF removed THEN EmptyDirectory ELSE @]
    /\ UNCHANGED cacheDirectory
    /\ UNCHANGED <<comparatorVars, formatterVars, retrying>>

\* yauzl.open(zipPath): the promise rejects unless the file is a whole ZIP.
ExtractOpen(r) ==
    /\ r \in DOMAIN calls
    /\ calls[r].pc = "open"
    /\ calls' = [calls EXCEPT ![r] =
           IF calls[r].zipPath /\ cacheDirectory[calls[r].slug] = "complete"
           THEN [@ EXCEPT !.pc = "entries", !.entry = 1]
           ELSE Throw(@, PlainError(<<"Error", calls[r].slug>>))]
    /\ UNCHANGED <<cacheDirectory, extractDirectory>>
    /\ UNCHANGED <<comparatorVars, formatterVars, retrying>>

\* An 'entry' event: the file is written, then the next entry is read.
ExtractEntry(r) ==
    /\ r \in DOMAIN calls
    /\ calls[r].pc = "entries"
    /\ calls[r].entry <= Len(ArchiveEntries)
    /\ extractDirectory' = [extractDirectory EXCEPT ![calls[r].slug] =
                               WriteEntry(@, ArchiveEntries[calls[r].entry])]
    /\ calls' = [calls EXCEPT ![r].entry = @ + 1]
    /\ UNCHANGED cacheDirectory
    /\ UNCHANGED <<comparatorVars, formatterVars, retrying>>

\* The 'end' event: extractPlugin resolves, and the handler goes on to its
\* response or to comparePlugins.
ExtractEnd(r) ==
    /\ r \in DOMAIN calls
    /\ calls[r].pc = "entries"
    /\ calls[r].entry > Len(ArchiveEntries)
    /\ calls' = [calls EXCEPT ![r] =
           IF calls[r].name = "extract_plugin"
           THEN Respond([@ EXCEPT !.log = Append(@, "extracted")],
                        [form |-> "extracted",
                         value |-> <<calls[r].slug, Len(ArchiveEntries)>>])
           ELSE [@ EXCEPT !.pc = "compare",
                          !.log = @ \o <<"extracted", "compare">>]]
    /\ UNCHANGED <<cacheDirectory, extractDirectory>>
    /\ UNCHANGED <<comparatorVars, formatterVars, retrying>>

\* The entry the loop of comparePlugins pushes for a path, every call of
\* fs succeeding on a file that is there.
ComparisonEntry(local, remote, localList, remoteList, file) ==
    LET branch == Branch(Includes(localList, file), Includes(remoteList, file))
    IN  IF branch = "remote_only"
        THEN RemoteOnlyEntry(file, GetFileSize(remote, file, TRUE))
        ELSE IF branch = "local_only"
        THEN LocalOnlyEntry(file, GetFileSize(local, file, TRUE))
        ELSE CompareFiles(file,
                 ReadFile(local, file, TRUE), ReadFile(remote, file, TRUE),
                 GetFileSize(local, file, TRUE), GetFileSize(remote, file, TRUE))

\* The value comparePlugins returns for the entries its loop pushed.
ComparisonOf(all, entries) ==
    [PluginComparison(entries,
         Summary(CountOf(entries, "identical"), CountOf(entries, "different"),
                 CountOf(entries, "local_only"), CountOf(entries, "remote_only"),
                 all))
     EXCEPT !.localPath = FormatLocalPath, !.remotePath = FormatRemotePath]

\* comparePlugins on two trees that do not change during the call.
CompareTrees(local, remote) ==
    LET localList == GetPluginFiles(local).files
        remoteList == GetPluginFiles(remote).files
        all == AllFiles(localList, remoteList)
    IN  ComparisonOf(all,
            [i \in 1..Len(all) |->
                ComparisonEntry(local, remote, localList, remoteList, all[i])])

\* AfterComparison answering a file of the comparison with its status, the
\* diff of the entry ignored.
AfterComparisonStatusOnly(c, comparison) ==
    IF c.name = "compare_plugins"
    THEN Respond(c, IF c.format = "summary"
                    THEN [form |-> "summary",
                          value |-> FormatComparisonSummary(comparison)]
                    ELSE [form |-> "json", value |-> comparison])
    ELSE LET found == {i \in 1..Len(comparison.files) :
                          comparison.files[i].file = c.file}
         IN  IF found = {}
             THEN Throw(c, McpError("InvalidRequest",
                                    <<"File not found in comparison", c.file>>))
             ELSE LET f == comparison.files[CHOOSE i \in found :
                                               \A j \in found : i <= j]
                  IN  Respond(c, [form |-> "status", value |-> <<c.file, f.status>>])

\* The statements of handleComparePlugins and handleGetFileDiff after await
\* this.comparator.comparePlugins(...).
AfterComparison(c, comparison) ==
    IF c.name = "compare_plugins"
    THEN Respond(c, IF c.format = "summary"
                    THEN [form |-> "summary",
                          value |-> FormatComparisonSummary(comparison)]
                    ELSE [form |-> "json", value |-> comparison])
    ELSE LET found == {i \in 1..Len(comparison.files) :
                          comparison.files[i].file = c.file}
         IN  IF found = {}
             THEN Throw(c, McpError("InvalidRequest",
                                    <<"File not found in comparison", c.file>>))
             ELSE LET f == comparison.files[CHOOSE i \in found :
                                               \A j \in found : i <= j]
                  IN  Respond(c, IF f.diff.present
                                 THEN [form |-> "diff", value |-> f.diff]
                                 ELSE [form |-> "status",
                                       value |-> <<c.file, f.status>>])

\* comparePlugins: await this.getPluginFiles(localPluginPath).
CompareLocal(r) ==
    /\ r \in DOMAIN calls
    /\ calls[r].pc = "compare"
    /\ calls' = [calls EXCEPT ![r].pc = "compareRemote",
                              ![r].localFiles = GetPluginFiles(localTree).files]
    /\ UNCHANGED <<cacheDirectory, extractDirectory>>
    /\ UNCHANGED <<comparatorVars, formatterVars, retrying>>

\* comparePlugins: await this.getPluginFiles(remotePluginPath), on the
\* directory of the slug as it is now.
CompareRemote(r) ==
    /\ r \in DOMAIN calls
    /\ calls[r].pc = "compareRemote"
    /\ LET listed == GetPluginFiles(extractDirectory[calls[r].slug]).files
       IN  calls' = [calls EXCEPT ![r].pc = "loop",
                                  ![r].remoteFiles = listed,
                                  ![r].allFiles = AllFiles(calls[r].localFiles, listed)]
    /\ UNCHANGED <<cacheDirectory, extractDirectory>>
    /\ UNCHANGED <<comparatorVars, formatterVars, retrying>>

\* One iteration of the loop of comparePlugins, on the directory of the slug
\* as it is now.
CompareLoop(r) ==
    /\ r \in DOMAIN calls
    /\ calls[r].pc = "loop"
    /\ Len(calls[r].comparisons) < Len(calls[r].allFiles)
    /\ calls' = [calls EXCEPT ![r].comparisons =
           Append(@, ComparisonEntry(localTree, extractDirectory[calls[r].slug],
                         calls[r].localFiles, calls[r].remoteFiles,
                         calls[r].allFiles[Len(calls[r].comparisons) + 1]))]
    /\ UNCHANGED <<cacheDirectory, extractDirectory>>
    /\ UNCHANGED <<comparatorVars, formatterVars, retrying>>

\* comparePlugins returns, and the handler answers.
CompareEnd(r) ==
    /\ r \in DOMAIN calls
    /\ calls[r].pc = "loop"
    /\ Len(calls[r].comparisons) = Len(calls[r].allFiles)
    /\ calls' = [calls EXCEPT ![r] =
           AfterComparison(@, ComparisonOf(calls[r].allFiles, calls[r].comparisons))]
    /\ UNCHANGED <<cacheDirectory, extractDirectory>>
    /\ UNCHANGED <<comparatorVars, formatterVars, retrying>>

\* The part of a relative path before its last "/".
DirOf(p) ==
    LET slashes == {i \in 1..Len(p) : p[i] = 47}
    IN  IF slashes = {} THEN <<>>
        ELSE SubSeq(p, 1, (CHOOSE i \in slashes : \A j \in slashes : j <= i) - 1)

\* path.extname of the name of an entry: from its last "." on, a "." that
\* begins the name not counting.
ExtName(name) ==
    LET dots == {i \in 2..Len(name) : name[i] = 46}
    IN  IF dots = {} THEN <<>>
        ELSE SubSeq(name, CHOOSE i \in dots : \A j \in dots : j <= i, Len(name))

\* walkDir of PluginExtractor.getPluginFiles: the set of the paths it pushes.
\* It has no try/catch: a readdir that fails, at any depth, ends the walk.
RECURSIVE ExtractorWalkDir(_, _, _)
ExtractorWalkDir(tree, dir, extension) ==
    IF ~(tree.dirs[dir].exists /\ tree.dirs[dir].ok)
    THEN [err |-> TRUE, files |-> {}]
    ELSE LET Name(f) == IF dir = <<>> THEN f ELSE SubSeq(f, Len(dir) + 2, Len(f))
             below == {ExtractorWalkDir(tree, d, extension) :
                          d \in {e \in DOMAIN tree.dirs :
                                    e # <<>> /\ tree.dirs[e].exists /\ DirOf(e) = dir}}
             here == {f \in DOMAIN tree.files :
                         /\ tree.files[f].present
                         /\ DirOf(f) = dir
                         /\ extension = <<>> \/ ExtName(Name(f)) = extension}
         IN  IF \E b \in below : b.err THEN [err |-> TRUE, files |-> {}]
             ELSE [err |-> FALSE, files |-> here \cup UNION {b.files : b \in below}]

\* getPluginFiles returning every file, the extension ignored.
ExtractorGetPluginFilesUnfiltered(tree, extension) ==
    LET walked == ExtractorWalkDir(tree, <<>>, <<>>)
    IN  [err |-> walked.err, files |-> SortPaths(SeqOfSet(walked.files))]

\* PluginExtractor.getPluginFiles: the walk, then files.sort(); the files of
\* an extension when one is given.
ExtractorGetPluginFiles(tree, extension) ==
    LET walked == ExtractorWalkDir(tree, <<>>, extension)
    IN  [err |-> walked.err, files |-> SortPaths(SeqOfSet(walked.files))]

\* handleListPluginFiles.
ListFiles(r) ==
    /\ r \in DOMAIN calls
    /\ calls[r].pc = "list"
    /\ LET listed == ExtractorGetPluginFiles(extractDirectory[calls[r].slug],
                                             calls[r].extension)
       IN  calls' = [calls EXCEPT ![r] =
               IF listed.err THEN Throw(@, PlainError(<<"ENOENT", calls[r].slug>>))
               ELSE Respond(@, [form |-> "files", value |-> listed.files])]
    /\ UNCHANGED <<cacheDirectory, extractDirectory>>
    /\ UNCHANGED <<comparatorVars, formatterVars, retrying>>

\* What readPluginFile returns: the text, or null when fs.readFile throws.
Null == [null |-> TRUE, text |-> <<>>]

ReadPluginFile(tree, filePath) ==
    LET read == ReadFile(tree, filePath, TRUE)
    IN  IF read.err THEN Null ELSE [null |-> FALSE, text |-> read.text]

\* !content: null, and the empty string.
Falsy(content) == content.null \/ content.text = <<>>

\* handleReadPluginFile.
ReadPlugin(r) ==
    /\ r \in DOMAIN calls
    /\ calls[r].pc = "read"
    /\ LET content == ReadPluginFile(extractDirectory[calls[r].slug], calls[r].file)
       IN  calls' = [calls EXCEPT ![r] =
               IF Falsy(content)
               THEN Throw(@, McpError("InvalidRequest",
                                      <<"File not found", calls[r].file>>))
               ELSE Respond(@, [form |-> "text", value |-> content.text])]
    /\ UNCHANGED <<cacheDirectory, extractDirectory>>
    /\ UNCHANGED <<comparatorVars, formatterVars, retrying>>

\* The server is started: local_path holds a plugin, no comparison or report
\* is under way outside the calls.
ServerStarted ==
    /\ localTree \in LocalPluginTrees
    /\ remoteTree = AbsentTree
    /\ pc = "serve"
    /\ localFiles = <<>>
    /\ remoteFiles = <<>>
    /\ allFiles = <<>>
    /\ idx = 1
    /\ comparisons = <<>>
    /\ identical = 0
    /\ different = 0
    /\ localOnly = 0
    /\ remoteOnly = 0
    /\ result = Pending
    /\ faults = {}
    /\ FormatterIdle
    /\ RetryIdle

\* The two directories outlive the server: the plugin "p" may have been
\* downloaded, wholly or in part, and extracted by an earlier run, in this
\* version or in an earlier one; the plugin "q" has not.
ServerInit ==
    /\ ServerStarted
    /\ calls = [r \in Requests |-> IdleCall]
    /\ cacheDirectory \in {[s \in Slugs |-> IF s = "p" THEN z ELSE "absent"] :
                              z \in {"absent", "partial", "complete"}}
    /\ extractDirectory \in {[s \in Slugs |-> IF s = "p" THEN t ELSE AbsentTree] :
                                t \in {AbsentTree, ExtractedTree, StaleTree}}

\* The calls are handled concurrently: each step is a continuation of one of
\* them.
ServerNext ==
    \E r \in Requests \cup OverlappingRequests :
        \/ CallToolAmong(r, ToolNames \cup {UnknownTool})
        \/ Search(r)
        \/ Info(r)
        \/ DownloadAccess(r)
        \/ DownloadFetch(r)
        \/ DownloadWrite(r)
        \/ ExtractClean(r)
        \/ ExtractOpen(r)
        \/ ExtractEntry(r)
        \/ ExtractEnd(r)
        \/ CompareLocal(r)
        \/ CompareRemote(r)
        \/ CompareLoop(r)
        \/ CompareEnd(r)
        \/ ListFiles(r)
        \/ ReadPlugin(r)

SpecServer == ServerInit /\ [][ServerNext]_vars

\* ------------------------------------------- server: two comparisons

\* The ZIP files of the plugins are cached, and nothing is extracted.
OverlapInit ==
    /\ ServerStarted
    /\ calls = [r \in OverlappingRequests |-> IdleCall]
    /\ cacheDirectory = [s \in Slugs |-> "complete"]
    /\ extractDirectory = [s \in Slugs |-> AbsentTree]

\* Two calls of compare_plugins or get_file_diff, handled concurrently.
OverlapNext ==
    \E r \in Requests \cup OverlappingRequests :
        \/ CallToolAmong(r, ComparisonTools)
        \/ DownloadAccess(r)
        \/ ExtractClean(r)
        \/ ExtractOpen(r)
        \/ ExtractEntry(r)
        \/ ExtractEnd(r)
        \/ CompareLocal(r)
        \/ CompareRemote(r)
        \/ CompareLoop(r)
        \/ CompareEnd(r)

SpecOverlap == OverlapInit /\ [][OverlapNext]_vars


\* ---------------------------------------------- server: two downloads

\* The cache directory is empty.
DownloadInit ==
    /\ ServerStarted
    /\ calls = [r \in OverlappingRequests |-> IdleCall]
    /\ cacheDirectory = [s \in Slugs |-> "absent"]
    /\ extractDirectory = [s \in Slugs |-> AbsentTree]

\* Two calls of download_plugin, handled concurrently.
DownloadNext ==
    \E r \in Requests \cup OverlappingRequests :
        \/ CallToolAmong(r, {"download_plugin"})
        \/ DownloadAccess(r)
        \/ DownloadFetch(r)
        \/ DownloadWrite(r)

SpecDownload == DownloadInit /\ [][DownloadNext]_vars

\* ------------------------------------------------ server: listing files

\* The file "a.php".
PhpName == FileName \o PhpExtension

\* The extraction directories list_plugin_files is called on: none, or a
\* directory holding any of the files "a", "a.php", "D/a" and "D/a.php",
\* with the directory "D", which can be read or not, when it holds one of
\* the two in "D".
ListTrees ==
  LET ListFilePaths ==
        {Join(d, n) : d \in {<<>>, DirName}, n \in {FileName, PhpName}}
  IN
    {[dirs |-> [d \in {<<>>, DirName} |->
                  IF d = <<>> THEN [exists |-> x[1], ok |-> x[1]]
                  ELSE [exists |-> x[2] # "absent", ok |-> x[2] = "readable"]],
      files |-> [f \in ListFilePaths |->
                  IF f \in x[3] THEN [present |-> TRUE, bytes |-> <<120>>]
                  ELSE AbsentFile]] :
        x \in {y \in BOOLEAN \X {"absent", "unreadable", "readable"}
                                \X SUBSET ListFilePaths :
                  /\ ~y[1] => y[2] = "absent" /\ y[3] = {}
                  /\ y[2] = "absent" => \A f \in y[3] : DirOf(f) = <<>>}}

\* The extraction directory of the plugin "p" is any of these trees.
ListInit ==
    /\ ServerStarted
    /\ calls = [r \in Requests |-> IdleCall]
    /\ cacheDirectory = [s \in Slugs |-> "absent"]
    /\ extractDirectory \in {[s \in Slugs |-> IF s = "p" THEN t ELSE AbsentTree] :
                                t \in ListTrees}

\* Calls of list_plugin_files.
ListNext ==
    \E r \in Requests \cup OverlappingRequests :
        \/ CallToolAmong(r, {"list_plugin_files"})
        \/ ListFiles(r)

SpecList == ListInit /\ [][ListNext]_vars

\* ------------------------------------------------------------------ retry

\* retry(operation, maxAttempts, baseDelay) is called: let attempt = 1.  The
\* operation is any that fails or succeeds at each of its calls; the error
\* and the result of a call are told apart by the attempt that made it.  The
\* baseDelay arguments, in milliseconds: none, 1, 3 and the default.
RetryInit ==
    /\ ComparatorIdle
    /\ pc = "retry"
    /\ FormatterIdle
    /\ ServerIdle
    /\ retrying \in
          {[pc |-> "loop", maxAttempts |-> m, baseDelay |-> d, attempt |-> 1,
            operations |-> 0, waits |-> <<>>, lastError |-> NoValue,
            state |-> "pending", value |-> NoValue] :
              m \in 0..MaxAttempts, d \in {0, 1, 3, 1000}}

\* The test of the for loop: the operation is called, or the loop is over
\* and lastError is thrown.
RetryLoop ==
    /\ retrying.pc = "loop"
    /\ retrying' =
          IF retrying.attempt <= retrying.maxAttempts
          THEN [retrying EXCEPT !.pc = "operation", !.operations = @ + 1]
          ELSE [retrying EXCEPT !.pc = "done", !.state = "rejected",
                                !.value = retrying.lastError]
    /\ UNCHANGED <<comparatorVars, formatterVars, serverVars>>

\* RetryOperation without the break after the last attempt: wait is called
\* after every failed attempt.
RetryOperationAlwaysWaiting ==
    /\ retrying.pc = "operation"
    /\ \E ok \in BOOLEAN :
          retrying' =
              IF ok
              THEN [retrying EXCEPT !.pc = "done", !.state = "fulfilled",
                                    !.value = [attempt |-> retrying.attempt]]
              ELSE [retrying EXCEPT !.pc = "wait",
                                    !.lastError = [attempt |-> retrying.attempt],
                                    !.waits = Append(@,
                                        retrying.baseDelay * 2 ^ (retrying.attempt - 1))]
    /\ UNCHANGED <<comparatorVars, formatterVars, serverVars>>

\* await operation() settles: its result is returned, or its error is
\* caught; after the last attempt the loop is left and the error thrown,
\* else wait(baseDelay * 2^(attempt - 1)) is called.
RetryOperation ==
    /\ retrying.pc = "operation"
    /\ \E ok \in BOOLEAN :
          retrying' =
              IF ok
              THEN [retrying EXCEPT !.pc = "done", !.state = "fulfilled",
                                    !.value = [attempt |-> retrying.attempt]]
              ELSE IF retrying.attempt = retrying.maxAttempts
              THEN [retrying EXCEPT !.pc = "done", !.state = "rejected",
                                    !.lastError = [attempt |-> retrying.attempt],
                                    !.value = [attempt |-> retrying.attempt]]
              ELSE [retrying EXCEPT !.pc = "wait",
                                    !.lastError = [attempt |-> retrying.attempt],
                                    !.waits = Append(@,
                                        retrying.baseDelay * 2 ^ (retrying.attempt - 1))]
    /\ UNCHANGED <<comparatorVars, formatterVars, serverVars>>

\* The timer of wait fires: attempt++.
RetryWait ==
    /\ retrying.pc = "wait"
    /\ retrying' = [retrying EXCEPT !.pc = "loop", !.attempt = @ + 1]
    /\ UNCHANGED <<comparatorVars, formatterVars, serverVars>>

RetryNext ==
    \/ RetryLoop
    \/ RetryOperation
    \/ RetryWait

SpecRetry == RetryInit /\ [][RetryNext]_vars

\* ------------------------------------------------------------ properties

RangeOf(seq) == {seq[i] : i \in 1..Len(seq)}

\* comparePlugins returned a value.
Fulfilled == result.state = "fulfilled"

\* The union of the two enumerations.
UnionPaths == RangeOf(localFiles) \cup RangeOf(remoteFiles)

\* The entries of the result for the paths of both enumerations.
StatOk(file, side) == <<file, side, "stat">> \notin faults
ReadOk(file, side) == <<file, side, "read">> \notin faults

Statuses == {"identical", "different", "local_only", "remote_only"}

\* C1: in every result of comparePlugins, summary.total is the sum of the
\* four other counts and is the number of distinct paths of the union of the
\* two enumerations.
C1_TotalIsSumAndUnionSize ==
    Fulfilled =>
        LET s == result.summary
        IN  /\ s.total = s.identical + s.different + s.localOnly + s.remoteOnly
            /\ s.total = Cardinality(UnionPaths)

\* A result over three paths with an identical, a different and a
\* remote-only entry.
C1_Witness ==
    /\ Fulfilled
    /\ result.summary.total = 3
    /\ result.summary.identical = 1
    /\ result.summary.different = 1
    /\ result.summary.remoteOnly = 1
    /\ Cardinality(RangeOf(localFiles) \cap RangeOf(remoteFiles)) = 2

\* C2: the files of every result are in non-decreasing localeCompare order
\* of their paths and hold exactly one entry for each path of the union.
C2_FilesSortedOnePerPath ==
    Fulfilled =>
        LET fs == result.files
        IN  /\ \A i \in 1..(Len(fs) - 1) : LocaleCompare(fs[i].file, fs[i + 1].file) <= 0
            /\ \A i, j \in 1..Len(fs) : fs[i].file = fs[j].file => i = j
            /\ {fs[i].file : i \in 1..Len(fs)} = UnionPaths

\* A result of three entries that the final sort has reordered.
C2_Witness ==
    /\ Fulfilled
    /\ Len(result.files) = 3
    /\ result.files # comparisons
    /\ RangeOf(localFiles) # RangeOf(remoteFiles)

\* C3: every entry of a result has one of the four statuses, decided by
\* membership: remote_only exactly for a path of remoteFiles only,
\* local_only exactly for a path of localFiles only, identical or different
\* exactly for a path of both; and every path of the union has an entry.
C3_StatusByMembership ==
    Fulfilled =>
        /\ \A i \in 1..Len(result.files) :
              LET e == result.files[i]
                  inLocal == e.file \in RangeOf(localFiles)
                  inRemote == e.file \in RangeOf(remoteFiles)
              IN  /\ e.status \in Statuses
                  /\ e.status = "remote_only" <=> (~inLocal /\ inRemote)
                  /\ e.status = "local_only" <=> (inLocal /\ ~inRemote)
                  /\ e.status \in {"identical", "different"} <=> (inLocal /\ inRemote)
        /\ \A p \in UnionPaths : \E i \in 1..Len(result.files) : result.files[i].file = p

\* A result with a remote-only, a local-only and a compared entry.
C3_Witness ==
    /\ Fulfilled
    /\ \E i, j, k \in 1..Len(result.files) :
          /\ result.files[i].status = "remote_only"
          /\ result.files[j].status = "local_only"
          /\ result.files[k].status \in {"identical", "different"}

\* The paths enumerated on both sides, and the bytes of a file on each side.
InBoth(file) == file \in RangeOf(localFiles) /\ file \in RangeOf(remoteFiles)
LocalBytes(file) == localTree.files[file].bytes
RemoteBytes(file) == remoteTree.files[file].bytes
Entries == RangeOf(result.files)

\* The status the size-only rule gives two sizes.
BySizes(localSize, remoteSize) ==
    IF localSize = remoteSize THEN "identical" ELSE "different"

\* What a size lookup on a side gives: the byte count, or nothing when the
\* lookup failed.
LookedUpLocal(file) == IF StatOk(file, "local") THEN Len(LocalBytes(file)) ELSE Undefined
LookedUpRemote(file) == IF StatOk(file, "remote") THEN Len(RemoteBytes(file)) ELSE Undefined

\* C4 as claimed: a path of both sides with byte-identical content always has
\* status identical and both sizes present.
C4_IdenticalAlways ==
    Fulfilled =>
        \A e \in Entries :
            (InBoth(e.file) /\ LocalBytes(e.file) = RemoteBytes(e.file)) =>
                /\ e.status = "identical"
                /\ e.localSize # Undefined
                /\ e.remoteSize # Undefined

\* C4, amended: a path of both sides with byte-identical content whose two
\* size lookups both succeed has status identical and both sizes present,
\* each the byte count of the file.
C4_IdenticalWhenStatted ==
    Fulfilled =>
        \A e \in Entries :
            (/\ InBoth(e.file)
             /\ LocalBytes(e.file) = RemoteBytes(e.file)
             /\ StatOk(e.file, "local")
             /\ StatOk(e.file, "remote")) =>
                /\ e.status = "identical"
                /\ e.diff = NoDiff
                /\ e.localSize = Len(LocalBytes(e.file))
                /\ e.remoteSize = Len(RemoteBytes(e.file))

\* An identical entry for two byte-identical files of two bytes, read as
\* text, with both sizes.
C4_Witness ==
    /\ Fulfilled
    /\ \E e \in Entries :
          /\ InBoth(e.file)
          /\ LocalBytes(e.file) = RemoteBytes(e.file)
          /\ Len(LocalBytes(e.file)) = 2
          /\ ReadOk(e.file, "local") /\ ReadOk(e.file, "remote")
          /\ StatOk(e.file, "local") /\ StatOk(e.file, "remote")
          /\ e.status = "identical"
          /\ e.localSize = 2 /\ e.remoteSize = 2

\* The lines of the decoded content of a file of each side.
LocalLines(file) == RangeOf(Lines(Decode(LocalBytes(file))))
RemoteLines(file) == RangeOf(Lines(Decode(RemoteBytes(file))))

\* A diff from the remote to the local content: it is there, it marks
\* lines, the lines of the remote file only are marked removed and the lines
\* of the local file only are marked added.
RemoteToLocal(d, file) ==
    /\ d.present
    /\ Len(d.lines) > 0
    /\ \A l \in RemoteLines(file) \ LocalLines(file) :
          /\ [mark |-> "-", line |-> l] \in RangeOf(d.lines)
          /\ \A m \in RangeOf(d.lines) : m.line = l => m.mark = "-"
    /\ \A l \in LocalLines(file) \ RemoteLines(file) :
          /\ [mark |-> "+", line |-> l] \in RangeOf(d.lines)
          /\ \A m \in RangeOf(d.lines) : m.line = l => m.mark = "+"

\* Two files of differing text content.
DifferingText(file) ==
    /\ ~IsBinary(LocalBytes(file))
    /\ ~IsBinary(RemoteBytes(file))
    /\ LocalBytes(file) # RemoteBytes(file)

\* C5 as claimed: a path of both sides with differing text content has
\* status different, both sizes present and a non-empty diff from the remote
\* to the local content.
C5_DifferentAlways ==
    Fulfilled =>
        \A e \in Entries :
            (InBoth(e.file) /\ DifferingText(e.file)) =>
                /\ e.status = "different"
                /\ e.localSize # Undefined
                /\ e.remoteSize # Undefined
                /\ RemoteToLocal(e.diff, e.file)

\* C5, amended: a path of both sides with differing text content, both
\* files read as text and both size lookups succeeding, has status
\* different, both sizes present and a non-empty diff from the remote to the
\* local content.
C5_DifferentWhenReadAndStatted ==
    Fulfilled =>
        \A e \in Entries :
            (/\ InBoth(e.file)
             /\ DifferingText(e.file)
             /\ ReadOk(e.file, "local") /\ ReadOk(e.file, "remote")
             /\ StatOk(e.file, "local") /\ StatOk(e.file, "remote")) =>
                /\ e.status = "different"
                /\ e.localSize = Len(LocalBytes(e.file))
                /\ e.remoteSize = Len(RemoteBytes(e.file))
                /\ RemoteToLocal(e.diff, e.file)
                /\ e.diff.index = e.file
                /\ e.diff.oldHeader = "WordPress.org"
                /\ e.diff.newHeader = "Local"

\* A different entry whose diff keeps a line of both files, removes a line
\* of the remote file and adds a line of the local file.
C5_Witness ==
    /\ Fulfilled
    /\ \E e \in Entries :
          /\ InBoth(e.file)
          /\ DifferingText(e.file)
          /\ e.status = "different"
          /\ e.diff.present
          /\ \E i, j, k \in 1..Len(e.diff.lines) :
                /\ e.diff.lines[i].mark = " "
                /\ e.diff.lines[j].mark = "-"
                /\ e.diff.lines[k].mark = "+"
          /\ e.localSize = 2 /\ e.remoteSize = 2

\* C6 as claimed: a path of the local side only has status local_only,
\* localSize present, remoteSize absent and no diff; a path of the remote
\* side only has status remote_only, remoteSize present, localSize absent and
\* no diff.
C6_OneSideSizePresent ==
    Fulfilled =>
        \A e \in Entries :
            /\ (e.file \in RangeOf(localFiles) \ RangeOf(remoteFiles)) =>
                  /\ e.status = "local_only"
                  /\ e.localSize # Undefined
                  /\ e.remoteSize = Undefined
                  /\ e.diff = NoDiff
            /\ (e.file \in RangeOf(remoteFiles) \ RangeOf(localFiles)) =>
                  /\ e.status = "remote_only"
                  /\ e.remoteSize # Undefined
                  /\ e.localSize = Undefined
                  /\ e.diff = NoDiff

\* C6, amended: the size of the side that has the file is present exactly
\* when its size lookup succeeds, and is then the byte count of the file.
C6_OneSideSizeWhenStatted ==
    Fulfilled =>
        \A e \in Entries :
            /\ (e.file \in RangeOf(localFiles) \ RangeOf(remoteFiles)) =>
                  /\ e.status = "local_only"
                  /\ e.localSize = LookedUpLocal(e.file)
                  /\ e.remoteSize = Undefined
                  /\ e.diff = NoDiff
            /\ (e.file \in RangeOf(remoteFiles) \ RangeOf(localFiles)) =>
                  /\ e.status = "remote_only"
                  /\ e.remoteSize = LookedUpRemote(e.file)
                  /\ e.localSize = Undefined
                  /\ e.diff = NoDiff

\* A result with a local-only and a remote-only entry, each with its size.
C6_Witness ==
    /\ Fulfilled
    /\ \E e, g \in Entries :
          /\ e.status = "local_only" /\ e.localSize = 1 /\ e.remoteSize = Undefined
          /\ g.status = "remote_only" /\ g.remoteSize = 1 /\ g.localSize = Undefined

\* A read of either file of the pair failed.
ReadFailed(file) == ~ReadOk(file, "local") \/ ~ReadOk(file, "remote")

\* C7 as claimed: when reading either file fails, the pair is classified by
\* the byte sizes of the two files alone, with no diff, and comparePlugins
\* does not fail.
C7_FallbackByByteSizes ==
    /\ result # Rejected
    /\ Fulfilled =>
          \A e \in Entries :
              (InBoth(e.file) /\ ReadFailed(e.file)) =>
                  /\ e.status = BySizes(Len(LocalBytes(e.file)), Len(RemoteBytes(e.file)))
                  /\ e.diff = NoDiff

\* C7, amended: when reading either file fails, the pair is classified by
\* the results of the two size lookups alone: identical when both give the
\* same byte count or both fail, different otherwise; with no diff, and
\* comparePlugins does not fail.
C7_FallbackByLookedUpSizes ==
    /\ result # Rejected
    /\ Fulfilled =>
          \A e \in Entries :
              (InBoth(e.file) /\ ReadFailed(e.file)) =>
                  /\ e.status = BySizes(LookedUpLocal(e.file), LookedUpRemote(e.file))
                  /\ e.localSize = LookedUpLocal(e.file)
                  /\ e.remoteSize = LookedUpRemote(e.file)
                  /\ e.diff = NoDiff

\* An identical entry for two files of differing content and equal size, one
\* of which could not be read.
C7_Witness ==
    /\ Fulfilled
    /\ \E e \in Entries :
          /\ InBoth(e.file)
          /\ ReadFailed(e.file)
          /\ LocalBytes(e.file) # RemoteBytes(e.file)
          /\ e.status = "identical"
          /\ e.localSize = 2 /\ e.remoteSize = 2

\* C8: with no I/O call failing, a path of both sides whose two files are
\* binary is classified by the two byte sizes alone, identical when they are
\* equal, and gets no diff.
C8_BinaryBySizeOnly ==
    (Fulfilled /\ faults = {}) =>
        \A e \in Entries :
            (InBoth(e.file) /\ IsBinary(LocalBytes(e.file)) /\ IsBinary(RemoteBytes(e.file))) =>
                /\ e.status = BySizes(Len(LocalBytes(e.file)), Len(RemoteBytes(e.file)))
                /\ e.diff = NoDiff

\* The fields of a returned value are all there, the counts natural numbers.
Populated(r) ==
    /\ DOMAIN r = {"state", "localPath", "remotePath", "files", "summary"}
    /\ r.localPath = "localPluginPath"
    /\ r.remotePath = "remotePluginPath"
    /\ \A e \in RangeOf(r.files) :
          DOMAIN e = {"file", "status", "diff", "localSize", "remoteSize"}
    /\ DOMAIN r.summary = {"identical", "different", "localOnly", "remoteOnly", "total"}
    /\ \A k \in DOMAIN r.summary : r.summary[k] \in Nat

\* C9: comparePlugins never fails, whatever the two roots.  It is never
\* stuck: the two enumerations are steps that can always be taken, and in
\* the loop the next of the finitely many paths takes one of the three
\* branches (each of which can run with every I/O call succeeding), or the
\* loop is over and the return can be taken.  What it ends with is a
\* returned value with all its fields, which for two roots that cannot be
\* read has no files and total 0.
C9_NoErrorSurfaces ==
    /\ result # Rejected
    /\ pc \in {"enumerateLocal", "enumerateRemote", "loop", "done"}
    /\ pc = "loop" =>
          /\ idx \in 1..(Len(allFiles) + 1)
          /\ Len(comparisons) = idx - 1
          /\ idx <= Len(allFiles) => BranchAt(idx) \in {"remote_only", "local_only", "both"}
    /\ pc = "done" =>
          /\ Fulfilled
          /\ Populated(result)
          /\ (Readdir(localTree, <<>>).err /\ Readdir(remoteTree, <<>>).err) =>
                (result.files = <<>> /\ result.summary.total = 0)

\* A returned value for two missing roots: no files, total 0.
C9_Witness ==
    /\ Fulfilled
    /\ ~localTree.dirs[<<>>].exists
    /\ ~remoteTree.dirs[<<>>].exists
    /\ result.files = <<>>
    /\ result.summary.total = 0

\* The directories from the root down to the one holding a path.
Ancestors(p) == {d \in DirPaths : Len(d) < Len(p) /\ SubSeq(p, 1, Len(d)) = d}

\* The files of a tree all of whose ancestor directories can be read.
ReachableFiles(tree) ==
    {f \in FilePaths :
        /\ tree.files[f].present
        /\ \A d \in Ancestors(f) : tree.dirs[d].exists /\ tree.dirs[d].ok}

\* C10: each enumeration lists exactly the files of its own tree that lie
\* under readable directories only: a directory that cannot be read (the
\* root included) contributes no file, the files of the other directories
\* are all listed, and neither enumeration depends on the other tree.
C10_UnreadableDirectoryContributesNothing ==
    /\ result # Rejected
    /\ pc # "enumerateLocal" => RangeOf(localFiles) = ReachableFiles(localTree)
    /\ pc \in {"loop", "done"} => RangeOf(remoteFiles) = ReachableFiles(remoteTree)

\* The local tree has a file in an unreadable subdirectory and files in
\* readable directories, which alone are listed; the remote root holds a file
\* and cannot be read, and nothing is listed for it.
C10_Witness ==
    /\ pc = "done"
    /\ \E d \in DirPaths \ {<<>>} :
          /\ localTree.dirs[d].exists
          /\ ~localTree.dirs[d].ok
          /\ localTree.files[Join(d, FileName)].present
    /\ Len(localFiles) = 2
    /\ remoteTree.dirs[<<>>].exists
    /\ remoteTree.files[FileName].present
    /\ remoteFiles = <<>>

\* The entries of a result for a path.
EntriesFor(file) == {e \in Entries : e.file = file}

\* C11: a failed size lookup on either side never makes comparePlugins fail
\* and never changes whether the entry is produced: the loop goes on to the
\* next path, the path still has its one entry, with one of the four
\* statuses, and the size field of the side whose lookup failed is absent,
\* not zero; the size of a side whose lookup succeeded is the byte count,
\* which may be zero.
C11_FailedStatGivesAbsentSize ==
    /\ result # Rejected
    /\ pc = "loop" => Len(comparisons) = idx - 1
    /\ \A i \in 1..Len(comparisons) :
          LET e == comparisons[i]
          IN  /\ e.file = allFiles[i]
              /\ e.status \in Statuses
              /\ ~StatOk(e.file, "local") => (e.localSize = Undefined /\ e.localSize # 0)
              /\ ~StatOk(e.file, "remote") => (e.remoteSize = Undefined /\ e.remoteSize # 0)
    /\ Fulfilled =>
          \A f \in UnionPaths :
              /\ Cardinality(EntriesFor(f)) = 1
              /\ \A e \in EntriesFor(f) :
                    /\ e.status \in Statuses
                    /\ ~StatOk(f, "local") => e.localSize = Undefined
                    /\ ~StatOk(f, "remote") => e.remoteSize = Undefined
                    /\ (StatOk(f, "local") /\ f \in RangeOf(localFiles)) =>
                          e.localSize = Len(LocalBytes(f))
                    /\ (StatOk(f, "remote") /\ f \in RangeOf(remoteFiles)) =>
                          e.remoteSize = Len(RemoteBytes(f))

\* A result for two empty files, read as text, where the size lookup of the
\* local file failed: the entry is there, its local size is absent and its
\* remote size is zero.
C11_Witness ==
    /\ Fulfilled
    /\ \E e \in Entries :
          /\ InBoth(e.file)
          /\ LocalBytes(e.file) = <<>>
          /\ RemoteBytes(e.file) = <<>>
          /\ ~StatOk(e.file, "local")
          /\ StatOk(e.file, "remote")
          /\ e.status = "identical"
          /\ e.localSize = Undefined
          /\ e.remoteSize = 0

\* Both files of a path were read as text: the two calls of
\* fs.readFile(path, 'utf-8') both returned a string.
BothReadAsText(file) ==
    /\ InBoth(file)
    /\ ReadOk(file, "local")
    /\ ReadOk(file, "remote")

\* C12: in every result an entry carries a diff only if its status is
\* different and both files were read as text (the two strings then differ);
\* identical, local_only and remote_only entries carry none, and neither
\* does a different entry of the size-only fallback.
C12_DiffOnlyWhenDifferentAndRead ==
    Fulfilled =>
        \A e \in Entries :
            /\ e.diff # NoDiff =>
                  /\ e.diff.present
                  /\ e.status = "different"
                  /\ BothReadAsText(e.file)
                  /\ Decode(LocalBytes(e.file)) # Decode(RemoteBytes(e.file))
            /\ e.status \in {"identical", "local_only", "remote_only"} => e.diff = NoDiff
            /\ (e.status = "different" /\ ~BothReadAsText(e.file)) => e.diff = NoDiff

\* A result whose entry carries a diff: two files of equal size and
\* differing content, both read as text.
C12_Witness ==
    /\ Fulfilled
    /\ \E e \in Entries :
          /\ e.diff # NoDiff
          /\ e.status = "different"
          /\ BothReadAsText(e.file)
          /\ Len(LocalBytes(e.file)) = Len(RemoteBytes(e.file))
          /\ Len(e.diff.lines) = 2

\* The entry the body of the loop pushes for a path, each of its I/O calls
\* giving the outcome it gave in the run.
LoopEntry(file) ==
    LET branch == Branch(Includes(localFiles, file), Includes(remoteFiles, file))
    IN  IF branch = "remote_only"
        THEN RemoteOnlyEntry(file, GetFileSize(remoteTree, file, StatOk(file, "remote")))
        ELSE IF branch = "local_only"
        THEN LocalOnlyEntry(file, GetFileSize(localTree, file, StatOk(file, "local")))
        ELSE CompareFiles(file,
                 ReadFile(localTree, file, ReadOk(file, "local")),
                 ReadFile(remoteTree, file, ReadOk(file, "remote")),
                 GetFileSize(localTree, file, StatOk(file, "local")),
                 GetFileSize(remoteTree, file, StatOk(file, "remote")))

\* The entry the loop pushes for each path of allFiles.
LoopEntries == [file \in RangeOf(allFiles) |-> LoopEntry(file)]

\* The entries and the four counters after the loop has processed the paths
\* of a sequence, in its order, pushing for each path its entry.
RECURSIVE LoopOver(_, _)
LoopOver(order, entries) ==
    IF order = <<>>
    THEN [comparisons |-> <<>>, identical |-> 0, different |-> 0,
          localOnly |-> 0, remoteOnly |-> 0]
    ELSE LET before == LoopOver(SubSeq(order, 1, Len(order) - 1), entries)
             e == entries[order[Len(order)]]
             One(status) == IF e.status = status THEN 1 ELSE 0
         IN  [comparisons |-> Append(before.comparisons, e),
              identical |-> before.identical + One("identical"),
              different |-> before.different + One("different"),
              localOnly |-> before.localOnly + One("local_only"),
              remoteOnly |-> before.remoteOnly + One("remote_only")]

\* What comparePlugins returns when its loop processes the paths in the
\* order of a sequence.
ResultOver(order, entries) ==
    LET l == LoopOver(order, entries)
    IN  PluginComparison(l.comparisons,
            Summary(l.identical, l.different, l.localOnly, l.remoteOnly, order))

\* The orders the paths of a sequence can be processed in.
Orders(seq) ==
    {[i \in 1..Len(seq) |-> seq[p[i]]] : p \in Permutations(1..Len(seq))}

\* No two distinct paths of the union compare as equal under localeCompare.
NoEquivalentPaths ==
    \A p, q \in UnionPaths : LocaleCompare(p, q) = 0 => p = q

ExactlyTheReachableFiles(files, tree) ==
    /\ \A f \in ReachableFiles(tree) :
          Cardinality({i \in 1..Len(files) : files[i] = f}) = 1
    /\ \A i \in 1..Len(files) :
          /\ files[i] \in ReachableFiles(tree)
          /\ files[i] \notin DirPaths
          /\ tree.files[files[i]].present

\* C14: the enumerator returns exactly the relative paths of the
\* non-directory entries reachable from the root through readable
\* directories: every such file once, at any nesting depth, and never a
\* directory.
C14_EnumeratorExact ==
    /\ pc # "enumerateLocal" => ExactlyTheReachableFiles(localFiles, localTree)
    /\ pc \in {"loop", "done"} => ExactlyTheReachableFiles(remoteFiles, remoteTree)

\* The local tree holds a file in its root and in each of its directories,
\* down to the deepest, and all are listed, once each; the remote tree has
\* directories and no file, and nothing is listed for it.
C14_Witness ==
    /\ pc \in {"loop", "done"}
    /\ Len(localFiles) = Cardinality(DirPaths)
    /\ \A d \in DirPaths : Includes(localFiles, Join(d, FileName))
    /\ \A d \in DirPaths : remoteTree.dirs[d].exists /\ remoteTree.dirs[d].ok
    /\ remoteFiles = <<>>

\* ---------------------------------------- properties of the summary report

\* formatComparisonSummary has returned.
Formatted == pc = "formatted"

\* The positions of the lines of a report that are a given line.
PositionsOf(lines, line) == {i \in 1..Len(lines) : lines[i] = line}

\* The paths of the entries of a status, in the order of files.
PathsOf(files, status) ==
    LET HasStatus(e) == e.status = status
        selected == SelectSeq(files, HasStatus)
    IN  [i \in 1..Len(selected) |-> selected[i].file]

\* The lines of a report have the section of a status, once: its header,
\* then one line "- <path>" for each entry of the status, in their order,
\* then an empty line.
HasSection(lines, header, paths) ==
    /\ Cardinality(PositionsOf(lines, header)) = 1
    /\ \A i \in PositionsOf(lines, header) :
          /\ i + Len(paths) + 1 <= Len(lines)
          /\ \A j \in 1..Len(paths) : lines[i + j] = ItemPrefix \o paths[j] \o LineBreak
          /\ lines[i + Len(paths) + 1] = LineBreak

\* A section is in the report exactly when its count is greater than 0.
SectionWhenCounted(lines, header, paths, count) ==
    IF count > 0 THEN HasSection(lines, header, paths)
    ELSE PositionsOf(lines, header) = {}

\* Every line that is the first header is before every line that is the
\* second.
Before(lines, first, second) ==
    \A i \in PositionsOf(lines, first) : \A j \in PositionsOf(lines, second) : i < j

\* The number of lines of a section: header, entries, empty line.
SectionLength(paths, count) == IF count > 0 THEN Len(paths) + 2 ELSE 0

\* The positions of the five lines of counts in the report.
CountLines == 8..12

\* The number of lines before the sections: title, rule, empty line, the two
\* roots, empty line, "Files Analysis:"; the five counts; an empty line.
HeadLength == 7 + Cardinality(CountLines) + 1

\* C15: the report has the sections Different Files, Local Only Files and
\* Remote Only Files in that order, each exactly when its summary count is
\* greater than 0 and each followed by one "- <path>" line per entry of that
\* status; a section whose count is 0 has no header, and no other line
\* follows the counts: identical files get no section.
C15_SectionsWhenCounted ==
    Formatted =>
        LET sm == formatInput.summary
            lines == Lines(output)
            differentPaths == PathsOf(formatInput.files, "different")
            localOnlyPaths == PathsOf(formatInput.files, "local_only")
            remoteOnlyPaths == PathsOf(formatInput.files, "remote_only")
        IN  /\ SectionWhenCounted(lines, DifferentHeader, differentPaths, sm.different)
            /\ SectionWhenCounted(lines, LocalOnlyHeader, localOnlyPaths, sm.localOnly)
            /\ SectionWhenCounted(lines, RemoteOnlyHeader, remoteOnlyPaths, sm.remoteOnly)
            /\ Before(lines, DifferentHeader, LocalOnlyHeader)
            /\ Before(lines, DifferentHeader, RemoteOnlyHeader)
            /\ Before(lines, LocalOnlyHeader, RemoteOnlyHeader)
            /\ Len(lines) = HeadLength
                            + SectionLength(differentPaths, sm.different)
                            + SectionLength(localOnlyPaths, sm.localOnly)
                            + SectionLength(remoteOnlyPaths, sm.remoteOnly)

\* The report of a comparison with one different, one local-only and one
\* remote-only entry: the three headers, each followed by its one path.
C15_Witness ==
    /\ Formatted
    /\ formatInput.summary.different = 1
    /\ formatInput.summary.localOnly = 1
    /\ formatInput.summary.remoteOnly = 1
    /\ LET lines == Lines(output)
       IN  \E i, j, k \in 1..Len(lines) :
              /\ i < j /\ j < k
              /\ lines[i] = DifferentHeader
              /\ lines[j] = LocalOnlyHeader
              /\ lines[k] = RemoteOnlyHeader
              /\ k + 2 = Len(lines)

\* The field of the count of a line of counts: what is between the label,
\* of 15 code units, and " files\n".
CountField(line) == SubSeq(line, 16, Len(line) - Len(FilesSuffix))

\* A field holds a count right-aligned: spaces, then digits up to its end.
RightAligned(field) ==
    \E k \in 0..(Len(field) - 1) :
        /\ \A i \in 1..k : field[i] = 32
        /\ \A i \in (k + 1)..Len(field) : field[i] \in 48..57

\* C16: in the statistics block each of the five counts is right-aligned in
\* a field of the same width: whatever the counts, the five fields end in the
\* same column.
C16_CountFieldsAligned ==
    Formatted =>
        LET lines == Lines(output)
        IN  /\ Len(lines) >= 12
            /\ \A i \in CountLines : RightAligned(CountField(lines[i]))
            /\ \A i, j \in CountLines :
                  /\ Len(CountField(lines[i])) = Len(CountField(lines[j]))
                  /\ Len(lines[i]) = Len(lines[j])

\* ------------------------------------------ properties of the tool calls

\* A call has answered.
Done(r) == calls[r].pc = "done"

\* What a call of compare_plugins or get_file_diff answers when no other
\* call is handled with it, the ZIP file of its plugin being cached: the
\* answer for the comparison of local_path with the extracted plugin.
AloneOutcome(c) == AfterComparison(c, CompareTrees(localTree, ExtractedTree)).outcome

\* C17: two calls of compare_plugins or get_file_diff that overlap in time,
\* for the same slug or not, each answer what the same call answers alone;
\* the extraction of one never changes what the comparison of the other
\* reads.
C17_OverlappingCallsAnswerAsAlone ==
    \A r \in DOMAIN calls : Done(r) => calls[r].outcome = AloneOutcome(calls[r])

\* The request handler answers a call by a response or by an McpError.
Answered(c) == c.outcome.kind \in {"content", "McpError"}

\* C18: every tool call ends in a content response or an McpError; a name
\* outside the eight registered tools fails with MethodNotFound, an McpError
\* raised by a handler reaches the caller unchanged, and any other failure
\* raised by a handler reaches the caller as McpError InternalError 'Tool
\* execution failed'.
C18_CallsEndInContentOrMcpError ==
    \A r \in DOMAIN calls :
        Done(r) =>
            LET c == calls[r]
            IN  /\ Answered(c)
                /\ c.name \notin ToolNames =>
                       /\ c.outcome.kind = "McpError"
                       /\ c.outcome.code = "MethodNotFound"
                /\ c.raised.kind = "McpError" => c.outcome = c.raised
                /\ c.raised.kind = "Error" =>
                       /\ c.outcome.kind = "McpError"
                       /\ c.outcome.code = "InternalError"
                       /\ c.outcome.message[1] = "Tool execution failed"
                /\ c.raised.kind = "none" => c.outcome.kind = "content"

\* A call of a registered tool whose handler threw a value that is no
\* McpError, answered by InternalError.
C18_Witness ==
    \E r \in DOMAIN calls :
        /\ Done(r)
        /\ calls[r].name \in ToolNames
        /\ calls[r].raised.kind = "Error"
        /\ calls[r].outcome.kind = "McpError"
        /\ calls[r].outcome.code = "InternalError"

\* The steps of a call of compare_plugins or get_file_diff, in their order.
ComparisonSteps == <<"download", "path", "extract", "extracted", "compare">>

IsPrefix(s, t) == Len(s) <= Len(t) /\ SubSeq(t, 1, Len(s)) = s

Logged(c, step) == \E i \in 1..Len(c.log) : c.log[i] = step

\* C19: compare_plugins and get_file_diff run download, then extraction,
\* then comparison: when the download yields no path the call fails with
\* InvalidRequest 'Failed to download plugin' and neither extraction nor
\* comparison is started; the extraction is started with the path of the
\* download, and the comparison is started when every entry of the archive
\* has been written and extractPlugin has resolved.
C19_DownloadExtractionComparisonInOrder ==
    \A r \in DOMAIN calls :
        LET c == calls[r]
        IN  (c.pc # "idle" /\ c.name \in ComparisonTools) =>
                /\ \/ IsPrefix(c.log, ComparisonSteps)
                   \/ c.log = <<"download", "no path">>
                /\ Logged(c, "no path") =>
                       /\ Done(r)
                       /\ c.outcome = McpError("InvalidRequest",
                                           <<"Failed to download plugin", c.slug>>)
                /\ c.pc \in {"extract", "open", "entries"} =>
                       c.zipPath /\ c.log = SubSeq(ComparisonSteps, 1, 3)
                /\ (c.pc \in {"compare", "compareRemote", "loop"}
                       \/ c.localFiles # <<>> \/ c.allFiles # <<>>) =>
                       /\ c.entry > Len(ArchiveEntries)
                       /\ c.log = ComparisonSteps

\* A call of compare_plugins or get_file_diff whose download yielded no
\* path: it has failed, with no extraction started.
C19_Witness ==
    \E r \in DOMAIN calls :
        /\ Done(r)
        /\ calls[r].name \in ComparisonTools
        /\ calls[r].log = <<"download", "no path">>
        /\ calls[r].outcome.kind = "McpError"

\* A call of compare_plugins or get_file_diff that has fetched the ZIP file,
\* extracted it and compared.
C19_ComparedAfterExtraction ==
    \E r \in DOMAIN calls :
        /\ Done(r)
        /\ calls[r].name \in ComparisonTools
        /\ calls[r].log = ComparisonSteps
        /\ calls[r].outcome.kind = "content"
        /\ cacheDirectory[calls[r].slug] = "complete"
        /\ calls[r].slug = "q"

\* C20: read_plugin_file returns the contents of the file for every file
\* that exists in the extraction directory of the slug, and fails with
\* InvalidRequest 'File not found' when the file does not exist or cannot
\* be read.
C20_ReadPluginFileReturnsExistingFiles ==
    [][\A r \in DOMAIN calls :
          (calls[r].pc = "read" /\ calls'[r].pc = "done") =>
              LET f == extractDirectory[calls[r].slug].files[calls[r].file]
              IN  IF f.present
                  THEN calls'[r].outcome =
                           Content([form |-> "text", value |-> Decode(f.bytes)])
                  ELSE calls'[r].outcome =
                           McpError("InvalidRequest",
                                    <<"File not found", calls[r].file>>)]_vars

\* ------------------------------------------------------------------- C21

\* The call is a get_file_diff whose comparison has returned.
DiffAnswered(c) ==
    /\ c.name = "get_file_diff"
    /\ c.pc = "done"
    /\ Logged(c, "compare")

\* The entries comparePlugins pushed for a path.
EntriesOf(c) == {i \in 1..Len(c.comparisons) : c.comparisons[i].file = c.file}

\* The path is in one of the two trees, as the comparison listed them.
InATree(c) == Includes(c.localFiles, c.file) \/ Includes(c.remoteFiles, c.file)

\* C21: get_file_diff throws InvalidRequest 'File not found in comparison'
\* exactly when the path is in neither of the two trees the comparison
\* listed; for a path of the comparison it answers the unified diff of the
\* entry when the entry has one, and 'File <path> is <status>' when it has
\* none.
C21_GetFileDiffAnswersByEntry ==
    \A r \in DOMAIN calls :
        LET c == calls[r]
        IN  DiffAnswered(c) =>
              /\ ~InATree(c) <=>
                    /\ c.outcome.kind = "McpError"
                    /\ c.outcome.code = "InvalidRequest"
                    /\ c.outcome.message = <<"File not found in comparison", c.file>>
              /\ InATree(c) =>
                    /\ Cardinality(EntriesOf(c)) = 1
                    /\ c.outcome.kind = "content"
                    /\ \A i \in EntriesOf(c) :
                          IF c.comparisons[i].diff.present
                          THEN /\ c.outcome.text.form = "diff"
                               /\ c.outcome.text.value = c.comparisons[i].diff
                          ELSE /\ c.outcome.text.form = "status"
                               /\ c.outcome.text.value =
                                     <<c.file, c.comparisons[i].status>>

\* A get_file_diff has answered the diff of a file that differs.
C21_Witness ==
    \E r \in DOMAIN calls :
        /\ DiffAnswered(calls[r])
        /\ calls[r].outcome.kind = "content"
        /\ calls[r].outcome.text.form = "diff"

\* A get_file_diff has answered the status of a file without a diff.
C21_StatusAnswered ==
    \E r \in DOMAIN calls :
        /\ DiffAnswered(calls[r])
        /\ calls[r].outcome.kind = "content"
        /\ calls[r].outcome.text.form = "status"

\* A get_file_diff has failed on a path of neither tree.
C21_NotFound ==
    \E r \in DOMAIN calls :
        /\ DiffAnswered(calls[r])
        /\ calls[r].outcome.kind = "McpError"

\* ------------------------------------------------------------------- C22

\* downloadPlugin has returned the cache path to a call.
ReturnedPath(c) == Logged(c, "path")

\* downloadPlugin of the call goes on from fs.access in this step.
AccessSettles(r) == calls[r].pc = "download" /\ calls'[r].pc # "download"

ExtractionResolves(r) == calls[r].pc = "entries" /\ calls'[r].pc # "entries"

\* C23: when extractPlugin resolves, the extraction directory of the slug
\* holds exactly the entries of the archive, with their contents, and no
\* file an earlier extraction left.
C23_ExtractionReplacesDirectory ==
    [][\A r \in DOMAIN calls :
          ExtractionResolves(r) =>
              extractDirectory'[calls[r].slug] = ExtractedTree]_vars

\* extract_plugin has answered, and the directory of the slug holds a file
\* that is no entry of the archive.
C23_StaleFileSurvives ==
    \E r \in DOMAIN calls :
        /\ Done(r)
        /\ calls[r].name = "extract_plugin"
        /\ calls[r].outcome.kind = "content"
        /\ extractDirectory[calls[r].slug].files[EAcute].present

\* ------------------------------------------------------------------- C24

\* A path ends with a suffix.
EndsWith(p, suffix) ==
    /\ Len(suffix) <= Len(p)
    /\ SubSeq(p, Len(p) - Len(suffix) + 1, Len(p)) = suffix

\* The sequence of paths ascends strictly in the order of the code units.
Ascending(files) ==
    \A i \in 1..Len(files) - 1 : CodeUnitCompare(files[i], files[i + 1]) < 0

\* list_plugin_files has answered the call with the list getPluginFiles
\* returned.
Listed(c) ==
    /\ c.name = "list_plugin_files"
    /\ c.pc = "done"
    /\ c.outcome.kind = "content"

\* C24: the list PluginExtractor.getPluginFiles returns is sorted and holds
\* exactly the relative paths of the files, at any depth, whose extension is
\* the filter, and of all the files when no filter is given.
C24_GetPluginFilesListsFilesOfExtension ==
    \A r \in DOMAIN calls :
        LET c == calls[r]
            tree == extractDirectory[c.slug]
        IN  Listed(c) =>
              /\ Ascending(c.outcome.text.value)
              /\ RangeOf(c.outcome.text.value) =
                    {f \in DOMAIN tree.files :
                        /\ tree.files[f].present
                        /\ c.extension = <<>> \/ EndsWith(f, c.extension)}

\* The ".php" files of a plugin have been listed, one of them in a
\* subdirectory, and the plugin holds other files.
C24_Witness ==
    \E r \in DOMAIN calls :
        /\ Listed(calls[r])
        /\ calls[r].extension = PhpExtension
        /\ calls[r].outcome.text.value = <<Join(DirName, PhpName), PhpName>>
        /\ extractDirectory[calls[r].slug].files[FileName].present

\* All the files of a plugin have been listed, no filter given.
C24_AllListed ==
    \E r \in DOMAIN calls :
        /\ Listed(calls[r])
        /\ calls[r].extension = <<>>
        /\ Len(calls[r].outcome.text.value) > 2
        /\ Len(calls[r].outcome.text.value) =
              Cardinality(DOMAIN extractDirectory[calls[r].slug].files)

\* getPluginFiles has thrown on a subdirectory that cannot be read.
C24_WalkThrows ==
    \E r \in DOMAIN calls :
        /\ calls[r].name = "list_plugin_files"
        /\ calls[r].pc = "done"
        /\ calls[r].raised.kind = "Error"
        /\ extractDirectory[calls[r].slug].dirs[<<>>].ok

\* ------------------------------------------------------------------- C25

\* downloadPlugin returns the cache path to the call in this step.
PathReturns(r) == ~ReturnedPath(calls[r]) /\ ReturnedPath(calls'[r])

\* After this step no call has the cache file of the slug open for writing.
NoWriterLeft(slug) ==
    \A s \in DOMAIN calls : ~(calls'[s].pc = "write" /\ calls'[s].slug = slug)

\* C25: downloadPlugin returns a path only to a ZIP that was written
\* completely: a download that fails after the cache file was opened returns
\* null, and no call returns the path of the file it left partly written.
C25_PathOnlyToCompleteFile ==
    [][\A r \in DOMAIN calls :
          /\ PathReturns(r) /\ NoWriterLeft(calls[r].slug) =>
                cacheDirectory'[calls[r].slug] = "complete"
          /\ calls[r].pc = "write" /\ calls'[r].pc = "done"
               /\ cacheDirectory'[calls[r].slug] # "complete"
               /\ NoWriterLeft(calls[r].slug) =>
                ~ReturnedPath(calls'[r])]_vars

\* A download failed after it opened the cache file, and a later call was
\* given the path of the file it left.
C25_PartialFileReturned ==
    \E r, s \in DOMAIN calls :
        /\ Done(r) /\ Done(s)
        /\ calls[r].slug = calls[s].slug
        /\ calls[s].fetches = 1 /\ ~ReturnedPath(calls[s])
        /\ calls[r].fetches = 0 /\ ReturnedPath(calls[r])
        /\ cacheDirectory[calls[r].slug] = "partial"

\* ------------------------------------------------------------------- C26

\* C26: of two overlapping downloadPlugin calls for one slug neither returns
\* the cache path while the other has the file open for writing, and no two
\* calls have the file open for writing at once.
C26_OverlappingDownloadsWriteOnce ==
    [][\A r, s \in DOMAIN calls :
          r # s /\ calls'[r].slug = calls'[s].slug =>
              /\ ~(PathReturns(r) /\ calls'[s].pc = "write")
              /\ ~(calls'[r].pc = "write" /\ calls'[s].pc = "write")]_vars

\* Two calls have the cache file of one slug open for writing.
C26_TwoWriters ==
    \E r, s \in DOMAIN calls :
        /\ r # s
        /\ calls[r].slug = calls[s].slug
        /\ calls[r].pc = "write" /\ calls[s].pc = "write"

\* A call was given the cache path without a fetch while the call that
\* fetches the file is still writing it.
C26_PathWhileWriting ==
    \E r, s \in DOMAIN calls :
        /\ r # s
        /\ calls[r].slug = calls[s].slug
        /\ Done(r) /\ ReturnedPath(calls[r]) /\ calls[r].fetches = 0
        /\ calls[s].pc = "write"

\* ------------------------------------------------------------------- C27

\* The number of entries of the result with a status.
EntriesWith(status) ==
    Cardinality({i \in 1..Len(result.files) : result.files[i].status = status})

\* C27: in every result of comparePlugins each count of the summary is the
\* number of entries of files with the matching status.
C27_CountsMatchEntries ==
    Fulfilled =>
        /\ result.summary.identical = EntriesWith("identical")
        /\ result.summary.different = EntriesWith("different")
        /\ result.summary.localOnly = EntriesWith("local_only")
        /\ result.summary.remoteOnly = EntriesWith("remote_only")

\* A result with one entry of a file of both trees and two local-only
\* entries.
C27_Witness ==
    /\ Fulfilled
    /\ EntriesWith("identical") + EntriesWith("different") = 1
    /\ EntriesWith("local_only") = 2
    /\ EntriesWith("remote_only") = 0

\* ------------------------------------------------------------------- C28

\* retry has returned or thrown.
Retried == retrying.pc = "done"

\* The delays of the waits are baseDelay * 2^(k-1) for the k-th of them.
Backoff ==
    \A k \in 1..Len(retrying.waits) :
        retrying.waits[k] = retrying.baseDelay * 2 ^ (k - 1)

\* C28: for maxAttempts >= 1, retry calls the operation at most maxAttempts
\* times; it returns the result of the first attempt that succeeds and calls
\* no more; it throws the error of the last attempt when all fail; and it
\* has waited baseDelay * 2^(k-1) after the k-th failed attempt, the last of
\* maxAttempts excepted.
C28_RetryBacksOffAndStops ==
    retrying.maxAttempts >= 1 =>
        /\ retrying.operations <= retrying.maxAttempts
        /\ Backoff
        /\ retrying.pc = "operation" => Len(retrying.waits) = retrying.operations - 1
        /\ Retried /\ retrying.state = "fulfilled" =>
              /\ retrying.value = [attempt |-> retrying.operations]
              /\ retrying.lastError =
                    IF retrying.operations = 1 THEN NoValue
                    ELSE [attempt |-> retrying.operations - 1]
              /\ Len(retrying.waits) = retrying.operations - 1
        /\ Retried /\ retrying.state = "rejected" =>
              /\ retrying.operations = retrying.maxAttempts
              /\ retrying.value = [attempt |-> retrying.maxAttempts]
              /\ Len(retrying.waits) = retrying.maxAttempts - 1

\* Three attempts with the default delay have failed: retry has thrown the
\* third error after waits of 1000 and 2000 milliseconds.
C28_Witness ==
    /\ Retried
    /\ retrying.state = "rejected"
    /\ retrying.maxAttempts = 3
    /\ retrying.operations = 3
    /\ retrying.waits = <<1000, 2000>>

\* The second attempt of three has succeeded after one wait.
C28_SecondAttemptReturned ==
    /\ Retried
    /\ retrying.state = "fulfilled"
    /\ retrying.maxAttempts = 3
    /\ retrying.value = [attempt |-> 2]
    /\ retrying.waits = <<1000>>

\* With maxAttempts = 0 the operation is not called and retry throws the
\* undefined lastError.
C28_NoAttempt ==
    /\ Retried
    /\ retrying.maxAttempts = 0
    /\ retrying.operations = 0
    /\ retrying.state = "rejected"
    /\ retrying.value = NoValue

====
